---- MODULE Spec2Model ----
(***************************************************************************)
(* The recording session of the buildlog recorder (RecordingSession, v2    *)
(* slim workflow format) as a state machine: the session's fields, the     *)
(* wall clock, the uuid source, the two event emitters, and one action per *)
(* public method.  Arguments are drawn from small sets that include what   *)
(* the agent-feed adapter passes through unvalidated from parsed JSON: a   *)
(* missing content field (undefined) and a file list that is not an array. *)
(***************************************************************************)
EXTENDS Integers, Sequences, FiniteSets, TLC

\* ------------------------------------------------------------------ bounds
\* uuidv4() is drawn at most MaxUuid times (one per construction, per start,
\* per step record built).
MaxUuid == 4
\* The wall clock stays within MaxTicks half seconds of its initial value.
MaxTicks == 1
\* Under the clock that can be set back, uuidv4() is drawn at most
\* MaxUuidClock times.
MaxUuidClock == 3
\* With the writer, uuidv4() is drawn at most MaxUuidWriter times.
MaxUuidWriter == 3
\* With the agent feed, uuidv4() is drawn at most MaxUuidFeed times and the
\* feed file of one recording gets at most MaxFeedLines lines, or at most
\* MaxFeedEntries lines when they are drawn from every kind of entry.
MaxUuidFeed == 5
MaxFeedLines == 3
MaxFeedEntries == 2
\* With the manual commands, uuidv4() is drawn at most MaxUuidCommands times.
MaxUuidCommands == 4
\* With the agent feed across recordings, uuidv4() is drawn at most
\* MaxUuidSessions times.
MaxUuidSessions == 5
\* With the file change watcher, uuidv4() is drawn at most MaxUuidWatchers
\* times and the wall clock stays within MaxWaits seconds of its initial
\* value.
MaxUuidWatchers == 4
MaxWaits == 3
\* With the chat capture, at most MaxChats chat requests are made and the
\* wall clock advances at most MaxChatWaits times by half the staleness
\* window.
MaxChats == 2
MaxChatWaits == 3
\* With the stop and start commands, at most MaxInvocations invocations of
\* them are made.
MaxInvocations == 4

\* ------------------------------------------------------- JavaScript values
\* undefined, for a string-typed value
Undefined == "<undefined>"
\* undefined, an array, or a value that is not an array, for a list-typed value
UndefinedList == [kind |-> "undefined", items |-> <<>>]
Arr(items) == [kind |-> "array", items |-> items]
NotArray == [kind |-> "string", items |-> <<>>]
\* undefined (<<>>) or a present value (<<v>>) for numbers, booleans, objects
None == <<>>
Some(v) == <<v>>

Range(f) == {f[i] : i \in DOMAIN f}

\* Math.round(n / d) for d > 0: the nearest integer, halves rounded up
MathRound(n, d) == (2 * n + d) \div (2 * d)

RecordingState == {"idle", "recording", "paused"}
OutcomeStatus == {"success", "partial", "failure", "abandoned"}

\* --------------------------------------------------------------- the state
VARIABLES
    state,            \* RecordingSession.state
    sessionId,        \* RecordingSession.sessionId
    title,            \* RecordingSession.title
    startTime,        \* RecordingSession.startTime: None or Some(ms)
    steps,            \* RecordingSession.steps
    sequenceCounter,  \* RecordingSession.sequenceCounter
    filesCreated,     \* RecordingSession.filesCreated (a Set)
    filesModified,    \* RecordingSession.filesModified (a Set)
    stepsRef,         \* which array object RecordingSession.steps refers to
    uuidCounter,      \* number of uuidv4() values drawn so far
    stateFired,       \* the payloads _onStateChange has fired, in order
    stepFired,        \* the payloads _onStep has fired since the last start()
    stateSeen,        \* what the accessors returned inside the handler of the
                      \* last state-change notification, if any
    stepSeen,         \* the step counts read inside the handlers of the step
                      \* notifications since the last start()
    now,              \* the wall clock, in ms
    artifact,         \* the BuildlogFile the last stop() returned, if any,
                      \* as its holder reads it
    artifactRef,      \* which array object its steps field refers to
    stopArg,          \* history: the outcome argument of that stop()
    acceptedAt,       \* history: the accepted calls of that session, in order
    accepted,         \* history: this session's accepted calls, in order
    recordingIds,     \* history: ids drawn by mutation calls made while recording
    lastArgs,         \* history: the arguments of this session's last
                      \* accepted call, if any
    lastOp,           \* history: the last call, if it threw or was made in a
                      \* state in which it is to be rejected; NoOp otherwise
    written,          \* BuildlogWriter: the content of the file last written
    readBack,         \* BuildlogWriter: what read() last returned
    feedFile,         \* the agent feed file, as the pieces written to it
    fileMtime,        \* the modification time of the agent feed file
    lastPosition,     \* AgentFeedWatcher.lastPosition
    lastMtime,        \* AgentFeedWatcher.lastMtime
    issued,           \* history: the mutation calls an adapter has issued
    ingested,         \* history: the feed lines turned into mutation calls
    cmd,              \* the manual command that is running, if any
    pollInterval,     \* AgentFeedWatcher.pollInterval
    intervals,        \* the number of intervals set and not cleared
    watcher,          \* FileChangeWatcher.watcher
    watchers,         \* the number of file system watchers created and
                      \* not disposed
    pendingChanges,   \* FileChangeWatcher.pendingChanges
    timeouts,         \* the timeouts set and neither cleared nor fired
    continuation,     \* the state change handler that waits at its await
    observed,         \* history: the last change event of each path
    lastChatRequest,  \* the global chat interceptor's lastChatRequest
    chats,            \* the chat requests that await their response
    stopping,         \* the invocations of the stop and start commands
    saved             \* history: the artifacts the stop command has written

session == <<state, sessionId, title, startTime, steps, sequenceCounter,
             filesCreated, filesModified, stepsRef>>
emitted == <<stateFired, stepFired, stateSeen, stepSeen>>
returned == <<artifact, artifactRef, stopArg, acceptedAt>>
writer == <<written, readBack>>
feed == <<feedFile, fileMtime, lastPosition, lastMtime, ingested>>
hosted == <<pollInterval, intervals, watcher, watchers, pendingChanges,
            timeouts, continuation, observed, lastChatRequest, chats,
            stopping, saved>>
adapters == <<written, readBack, feedFile, fileMtime, lastPosition, lastMtime,
              issued, ingested, cmd, hosted>>
vars == <<state, sessionId, title, startTime, steps, sequenceCounter,
          filesCreated, filesModified, stepsRef, uuidCounter, stateFired,
          stepFired, stateSeen, stepSeen, now, artifact, artifactRef, stopArg,
          acceptedAt, accepted, recordingIds, lastArgs, lastOp, written,
          readBack, feedFile, fileMtime, lastPosition, lastMtime, issued,
          ingested, cmd, hosted>>

\* The session object with its emitters and the uuid source, as one record
\* the methods below take and return.
Self ==
    [state |-> state, sessionId |-> sessionId, title |-> title,
     startTime |-> startTime, steps |-> steps,
     sequenceCounter |-> sequenceCounter,
     filesCreated |-> filesCreated, filesModified |-> filesModified,
     stepsRef |-> stepsRef, uuidCounter |-> uuidCounter,
     stateFired |-> stateFired, stepFired |-> stepFired,
     stateSeen |-> stateSeen, stepSeen |-> stepSeen]

\* How a call ends: it returns (with a value, for stop) or throws.
Returned(s) == [s |-> s, threw |-> FALSE, value |-> None]
ReturnedValue(s, v) == [s |-> s, threw |-> FALSE, value |-> Some(v)]
Threw(s) == [s |-> s, threw |-> TRUE, value |-> None]

\* ------------------------------------------------------------ the methods
\* uuidv4(): a fresh opaque value, the next one of the source
v4(s) == s.uuidCounter + 1

\* `Workflow ${new Date().toLocaleDateString()}`
DefaultTitle == "Workflow <date>"

\* Date.toISOString() of a time in ms
toISOString(ms) == "T+" \o ToString(ms) \o "ms"

detectEditor == "vscode"
detectAIProvider == "copilot"
BUILDLOG_VERSION == "2.0.0"

\* a getTimestamp() that reads the wall clock, not the time since the start
getTimestampOfClock(s, t) == MathRound(t, 1000)

\* private getTimestamp(): seconds since the recording started
getTimestamp(s, t) ==
    IF s.startTime = None THEN 0 ELSE MathRound(t - s.startTime[1], 1000)

\* the accessors, read at time t
getState(s) == s.state
getDuration(s, t) == IF s.startTime = None THEN 0 ELSE t - s.startTime[1]
getStepCount(s) == Len(s.steps)
getPromptCount(s) ==
    Cardinality({i \in DOMAIN s.steps : s.steps[i].type = "prompt"})
getTitle(s) == s.title
isRecording(s) == s.state = "recording"
getStats(s) ==
    LET count(type) ==
            Cardinality({i \in DOMAIN s.steps : s.steps[i].type = type})
    IN  [totalSteps |-> Len(s.steps),
         prompts |-> count("prompt"),
         actions |-> count("action"),
         notes |-> count("note"),
         others |-> Len(s.steps) - count("prompt") - count("action")
                        - count("note"),
         filesCreated |-> Cardinality(s.filesCreated),
         filesModified |-> Cardinality(s.filesModified)]

\* what a handler that queries the session at time t reads
Seen(s, t) ==
    [state |-> getState(s), stepCount |-> getStepCount(s),
     promptCount |-> getPromptCount(s), title |-> getTitle(s),
     duration |-> getDuration(s, t), startTime |-> s.startTime]

\* a setState() that notifies nobody
setStateSilent(s, st, t) == [s EXCEPT !.state = st]

\* private setState(state), called at time t: the handlers run inside fire()
setState(s, st, t) ==
    LET s1 == [s EXCEPT !.state = st]
    IN  [s1 EXCEPT !.stateFired = Append(@, st),
                   !.stateSeen = Some(Seen(s1, t))]

\* a reset() that leaves the title
resetKeepsTitle(s) ==
    [s EXCEPT !.steps = <<>>, !.stepsRef = @ + 1, !.startTime = None,
              !.sequenceCounter = 0, !.filesCreated = {},
              !.filesModified = {}]

\* a reset() that empties the step array in place (this.steps.length = 0)
resetInPlace(s) ==
    [s EXCEPT !.steps = <<>>, !.startTime = None, !.title = "",
              !.sequenceCounter = 0, !.filesCreated = {},
              !.filesModified = {}]

\* private reset(): this.steps = [] is a new array object
reset(s) ==
    [s EXCEPT !.steps = <<>>, !.stepsRef = @ + 1, !.startTime = None,
              !.title = "", !.sequenceCounter = 0, !.filesCreated = {},
              !.filesModified = {}]

\* an addStep() that notifies before it appends
addStepFiresFirst(s, step) ==
    [s EXCEPT !.steps = Append(@, step), !.stepFired = Append(@, step),
              !.stepSeen = Append(@, Len(s.steps))]

\* private addStep(step): the handlers run inside fire(), after the push
addStep(s, step) ==
    [s EXCEPT !.steps = Append(@, step), !.stepFired = Append(@, step),
              !.stepSeen = Append(@, Len(s.steps) + 1)]

\* a start() that numbers the steps from one
startNumbersFromOne(s, newTitle, t) ==
    Returned(setState(
        [s EXCEPT !.sessionId = v4(s),
                  !.uuidCounter = @ + 1,
                  !.title = IF newTitle = Undefined \/ newTitle = ""
                            THEN DefaultTitle ELSE newTitle,
                  !.startTime = Some(t),
                  !.steps = <<>>,
                  !.stepsRef = @ + 1,
                  !.sequenceCounter = 1,
                  !.filesCreated = {},
                  !.filesModified = {}],
        "recording", t))

\* a start() that records no start time
startWithoutTime(s, newTitle, t) ==
    Returned(setState(
        [s EXCEPT !.sessionId = v4(s),
                  !.uuidCounter = @ + 1,
                  !.title = IF newTitle = Undefined \/ newTitle = ""
                            THEN DefaultTitle ELSE newTitle,
                  !.steps = <<>>,
                  !.stepsRef = @ + 1,
                  !.sequenceCounter = 0,
                  !.filesCreated = {},
                  !.filesModified = {}],
        "recording", t))

\* start(title?) at time t, past its guard; this.steps = [] is a new array
startFresh(s, newTitle, t) ==
    Returned(setState(
        [s EXCEPT !.sessionId = v4(s),
                  !.uuidCounter = @ + 1,
                  !.title = IF newTitle = Undefined \/ newTitle = ""
                            THEN DefaultTitle ELSE newTitle,
                  !.startTime = Some(t),
                  !.steps = <<>>,
                  !.stepsRef = @ + 1,
                  !.sequenceCounter = 0,
                  !.filesCreated = {},
                  !.filesModified = {}],
        "recording", t))

\* a start() that restarts a running recording instead of failing
startUnguarded(s, newTitle, t) == startFresh(s, newTitle, t)

\* start(title?) at time t
start(s, newTitle, t) ==
    IF s.state = "recording" THEN Threw(s) ELSE startFresh(s, newTitle, t)

\* a replicability test that takes any step for a prompt
hasSteps(s) == s.steps # <<>>

\* const hasPrompts = this.steps.some(s => s.type === 'prompt')
hasPrompts(s) == \E i \in DOMAIN s.steps : s.steps[i].type = "prompt"

\* a default status that does not depend on the prompts
outcomeStatusDefaultsToSuccess(s, outcome) ==
    IF outcome # None /\ outcome[1].status # Undefined /\ outcome[1].status # ""
    THEN outcome[1].status
    ELSE "success"

\* a status that ignores the one the caller supplies
outcomeStatusIgnoresCaller(s, outcome) ==
    IF hasPrompts(s) THEN "success" ELSE "abandoned"

\* outcome?.status || (hasPrompts ? 'success' : 'abandoned')
outcomeStatus(s, outcome) ==
    IF outcome # None /\ outcome[1].status # Undefined /\ outcome[1].status # ""
    THEN outcome[1].status
    ELSE IF hasPrompts(s) THEN "success" ELSE "abandoned"

\* a generated summary that counts sequence numbers instead of steps
outcomeSummaryFromCounter(s, outcome) ==
    IF outcome # None /\ outcome[1].summary # Undefined /\ outcome[1].summary # ""
    THEN outcome[1].summary
    ELSE "Recorded " \o ToString(s.sequenceCounter) \o " steps"

\* outcome?.summary || `Recorded ${this.steps.length} steps`
outcomeSummary(s, outcome) ==
    IF outcome # None /\ outcome[1].summary # Undefined /\ outcome[1].summary # ""
    THEN outcome[1].summary
    ELSE "Recorded " \o ToString(Len(s.steps)) \o " steps"

\* the BuildlogFile stop() assembles at time t
buildlog(s, outcome, t) ==
    [version |-> BUILDLOG_VERSION,
     format |-> "slim",
     metadata |-> [id |-> s.sessionId,
                   title |-> s.title,
                   createdAt |-> toISOString(s.startTime[1]),
                   durationSeconds |-> MathRound(t - s.startTime[1], 1000),
                   editor |-> detectEditor,
                   aiProvider |-> detectAIProvider,
                   replicable |-> hasPrompts(s)],
     steps |-> s.steps,
     outcome |-> [status |-> outcomeStatus(s, outcome),
                  summary |-> outcomeSummary(s, outcome),
                  filesCreated |-> Cardinality(s.filesCreated),
                  filesModified |-> Cardinality(s.filesModified),
                  canReplicate |-> hasPrompts(s)]]

\* a stop() that announces 'idle' before it looks at the state
stopFiresBeforeGuard(s, outcome, t) ==
    IF s.state # "recording" THEN Threw(setState(s, "idle", t))
    ELSE IF s.startTime = None THEN Threw(s)
    ELSE ReturnedValue(reset(setState(s, "idle", t)), buildlog(s, outcome, t))

\* a stop() that parks the session in 'paused'
stopPauses(s, outcome, t) ==
    IF s.state # "recording" THEN Threw(s)
    ELSE IF s.startTime = None THEN Threw(s)
    ELSE ReturnedValue(reset(setState(s, "paused", t)), buildlog(s, outcome, t))

\* stop(outcome?) at time t.  this.startTime!.getTime() throws a TypeError
\* when startTime is undefined.  The body has no await: it runs to its
\* return in one piece.
stop(s, outcome, t) ==
    IF s.state # "recording" THEN Threw(s)
    ELSE IF s.startTime = None THEN Threw(s)
    ELSE ReturnedValue(reset(setState(s, "idle", t)), buildlog(s, outcome, t))

\* addPrompt(content, options?) at time t.  content.substring() throws a
\* TypeError when content is not a string, after the step record was built.
addPrompt(s, content, options, t) ==
    IF s.state # "recording" THEN Returned(s)
    ELSE LET step == [id |-> v4(s), type |-> "prompt",
                      timestamp |-> getTimestamp(s, t),
                      sequence |-> s.sequenceCounter,
                      content |-> content,
                      context |-> options.context,
                      intent |-> options.intent]
             s1 == [s EXCEPT !.uuidCounter = @ + 1, !.sequenceCounter = @ + 1]
         IN  IF content = Undefined THEN Threw(s1)
             ELSE Returned(addStep(s1, step))

\* options?.filesX?.forEach(f => set.add(f)): throws a TypeError when the
\* value is neither undefined nor an array
forEachAdd(set, list) ==
    IF list.kind = "array" THEN set \cup Range(list.items) ELSE set

\* addAction(summary, options?) at time t, past its guard
addActionRecording(s, summary, options, t) ==
    IF options.filesCreated = NotArray THEN Threw(s)
    ELSE LET s1 == [s EXCEPT !.filesCreated =
                                 forEachAdd(@, options.filesCreated)]
         IN  IF options.filesModified = NotArray THEN Threw(s1)
             ELSE LET s2 == [s1 EXCEPT !.filesModified =
                                           forEachAdd(@, options.filesModified),
                                       !.uuidCounter = @ + 1,
                                       !.sequenceCounter = @ + 1]
                      step == [id |-> v4(s), type |-> "action",
                               timestamp |-> getTimestamp(s, t),
                               sequence |-> s.sequenceCounter,
                               summary |-> summary,
                               filesCreated |-> options.filesCreated,
                               filesModified |-> options.filesModified,
                               filesDeleted |-> options.filesDeleted,
                               approach |-> options.approach]
                  IN  Returned(addStep(s2, step))

\* an addAction() that records whatever the state is
addActionUnguarded(s, summary, options, t) ==
    addActionRecording(s, summary, options, t)

\* addAction(summary, options?) at time t
addAction(s, summary, options, t) ==
    IF s.state # "recording" THEN Returned(s)
    ELSE addActionRecording(s, summary, options, t)

\* an addTerminal() that records whatever the state is
addTerminalUnguarded(s, command, outcome, options, t) ==
    LET step == [id |-> v4(s), type |-> "terminal",
                 timestamp |-> getTimestamp(s, t),
                 sequence |-> s.sequenceCounter,
                 command |-> command,
                 outcome |-> outcome,
                 summary |-> options.summary,
                 exitCode |-> options.exitCode]
        s1 == [s EXCEPT !.uuidCounter = @ + 1, !.sequenceCounter = @ + 1]
    IN  Returned(addStep(s1, step))

\* addTerminal(command, outcome, options?) at time t
addTerminal(s, command, outcome, options, t) ==
    IF s.state # "recording" THEN Returned(s)
    ELSE LET step == [id |-> v4(s), type |-> "terminal",
                      timestamp |-> getTimestamp(s, t),
                      sequence |-> s.sequenceCounter,
                      command |-> command,
                      outcome |-> outcome,
                      summary |-> options.summary,
                      exitCode |-> options.exitCode]
             s1 == [s EXCEPT !.uuidCounter = @ + 1, !.sequenceCounter = @ + 1]
         IN  Returned(addStep(s1, step))

\* addNote(content, category?) at time t.  content.substring() throws a
\* TypeError when content is not a string, after the step record was built.
addNote(s, content, category, t) ==
    IF s.state # "recording" THEN Returned(s)
    ELSE LET step == [id |-> v4(s), type |-> "note",
                      timestamp |-> getTimestamp(s, t),
                      sequence |-> s.sequenceCounter,
                      content |-> content,
                      category |-> category]
             s1 == [s EXCEPT !.uuidCounter = @ + 1, !.sequenceCounter = @ + 1]
         IN  IF content = Undefined THEN Threw(s1)
             ELSE Returned(addStep(s1, step))

\* an addCheckpoint() that marks the milestone without recording a step
addCheckpointMarksOnly(s, name, summary, t) == Returned(s)

\* addCheckpoint(name, summary) at time t
addCheckpoint(s, name, summary, t) ==
    IF s.state # "recording" THEN Returned(s)
    ELSE LET step == [id |-> v4(s), type |-> "checkpoint",
                      timestamp |-> getTimestamp(s, t),
                      sequence |-> s.sequenceCounter,
                      name |-> name,
                      summary |-> summary]
             s1 == [s EXCEPT !.uuidCounter = @ + 1, !.sequenceCounter = @ + 1]
         IN  Returned(addStep(s1, step))

\* an addError() whose resolved flag defaults to true
addErrorResolvedByDefault(s, message, resolved, resolution, t) ==
    IF s.state # "recording" THEN Returned(s)
    ELSE LET step == [id |-> v4(s), type |-> "error",
                      timestamp |-> getTimestamp(s, t),
                      sequence |-> s.sequenceCounter,
                      message |-> message,
                      resolved |-> IF resolved = None THEN TRUE
                                   ELSE resolved[1],
                      resolution |-> resolution]
             s1 == [s EXCEPT !.uuidCounter = @ + 1, !.sequenceCounter = @ + 1]
         IN  Returned(addStep(s1, step))

\* addError(message, resolved = false, resolution?) at time t
addError(s, message, resolved, resolution, t) ==
    IF s.state # "recording" THEN Returned(s)
    ELSE LET step == [id |-> v4(s), type |-> "error",
                      timestamp |-> getTimestamp(s, t),
                      sequence |-> s.sequenceCounter,
                      message |-> message,
                      resolved |-> IF resolved = None THEN FALSE
                                   ELSE resolved[1],
                      resolution |-> resolution]
             s1 == [s EXCEPT !.uuidCounter = @ + 1, !.sequenceCounter = @ + 1]
         IN  Returned(addStep(s1, step))

\* setTitle(title)
setTitle(s, newTitle) == [s EXCEPT !.title = newTitle]

\* dispose(): disposes the two emitters; no field of the session changes
dispose(s) == s

\* ------------------------------------------------- what producers can pass
Titles == {"", "Test Recording"}
StartTitles == Titles \cup {Undefined}
RenameTitles == {"Test Recording"}
StopOutcomes ==
    {None,
     Some([status |-> "success", summary |-> "Completed successfully"]),
     Some([status |-> "partial", summary |-> ""]),
     Some([status |-> "failure", summary |-> "Completed successfully"]),
     Some([status |-> "abandoned", summary |-> ""])}
PromptContents == {"Create a hello world function", Undefined}
PromptOptions ==
    {[context |-> UndefinedList, intent |-> Undefined],
     [context |-> Arr(<<"main.js">>), intent |-> "fix"]}
NoActionOptions ==
    [filesCreated |-> UndefinedList, filesModified |-> UndefinedList,
     filesDeleted |-> UndefinedList, approach |-> Undefined]
ActionOptions ==
    {NoActionOptions,
     [NoActionOptions EXCEPT !.filesCreated = Arr(<<"hello.js">>)],
     [NoActionOptions EXCEPT !.filesCreated = Arr(<<"hello.js", "main.js">>),
                             !.filesModified = Arr(<<"main.js">>),
                             !.filesDeleted = Arr(<<"old.js">>),
                             !.approach = "rewrite"],
     [NoActionOptions EXCEPT !.filesCreated = Arr(<<"main.js">>),
                             !.filesModified = NotArray],
     [NoActionOptions EXCEPT !.filesCreated = NotArray]}
TerminalCalls ==
    {[outcome |-> "failure",
      options |-> [summary |-> "Build failed", exitCode |-> Some(1)]]}
NoteCalls ==
    {[content |-> "Performance tip needed", category |-> "tip"],
     [content |-> Undefined, category |-> Undefined]}
ErrorCalls ==
    {[resolved |-> None, resolution |-> Undefined],
     [resolved |-> Some(TRUE), resolution |-> "Used npm cache"]}

\* ------------------------------------------------------------- the actions
NoOp == [op |-> "none", threw |-> FALSE]
NoCommand ==
    [kind |-> "none", pc |-> "done", content |-> Undefined, calls |-> 0,
     typed |-> Undefined, files |-> UndefinedList]

Init ==
    /\ state = "idle"
    /\ sessionId = 1
    /\ title = ""
    /\ startTime = None
    /\ steps = <<>>
    /\ sequenceCounter = 0
    /\ filesCreated = {}
    /\ filesModified = {}
    /\ uuidCounter = 1
    /\ stateFired = <<>>
    /\ stepFired = <<>>
    /\ stepsRef = 1
    /\ stateSeen = None
    /\ stepSeen = <<>>
    /\ now = 0
    /\ artifact = None
    /\ artifactRef = 0
    /\ stopArg = None
    /\ acceptedAt = <<>>
    /\ accepted = <<>>
    /\ recordingIds = {}
    /\ lastArgs = None
    /\ lastOp = NoOp
    /\ written = None
    /\ readBack = None
    /\ feedFile = <<>>
    /\ fileMtime = None
    /\ lastPosition = 0
    /\ lastMtime = None
    /\ issued = <<>>
    /\ ingested = <<>>
    /\ cmd = NoCommand
    /\ pollInterval = None
    /\ intervals = 0
    /\ watcher = None
    /\ watchers = 0
    /\ pendingChanges = <<>>
    /\ timeouts = {}
    /\ continuation = None
    /\ observed = <<>>
    /\ lastChatRequest = None
    /\ chats = <<>>
    /\ stopping = <<>>
    /\ saved = <<>>

\* The session after a call that ended as r
Install(r) ==
    /\ state' = r.s.state
    /\ sessionId' = r.s.sessionId
    /\ title' = r.s.title
    /\ startTime' = r.s.startTime
    /\ steps' = r.s.steps
    /\ sequenceCounter' = r.s.sequenceCounter
    /\ filesCreated' = r.s.filesCreated
    /\ filesModified' = r.s.filesModified
    /\ stepsRef' = r.s.stepsRef
    /\ uuidCounter' = r.s.uuidCounter
    /\ stateFired' = r.s.stateFired
    /\ stateSeen' = r.s.stateSeen

\* The artifact a as its holder reads it once the session is s: its steps
\* field is the array object ref, which is the session's own while
\* this.steps still refers to it
Held(a, ref, s) ==
    IF a # None /\ s.stepsRef = ref
    THEN Some([a[1] EXCEPT !.steps = s.steps]) ELSE a

\* The session and its history after a mutation call that ended as r; call
\* is its kind and main argument, args its arguments
Called(r, call, args) ==
    /\ Install(r)
    /\ stepFired' = r.s.stepFired
    /\ stepSeen' = r.s.stepSeen
    /\ artifact' = Held(artifact, artifactRef, r.s)
    /\ accepted' = IF state = "recording" /\ ~r.threw
                   THEN Append(accepted, call) ELSE accepted
    /\ recordingIds' = IF state = "recording"
                       THEN recordingIds \cup ((uuidCounter + 1) .. r.s.uuidCounter)
                       ELSE recordingIds
    /\ lastOp' = IF state # "recording" \/ r.threw
                 THEN [op |-> "mutation", threw |-> r.threw] ELSE NoOp
    /\ lastArgs' = IF state = "recording" /\ ~r.threw
                   THEN Some(args) ELSE lastArgs
    /\ UNCHANGED <<now, artifactRef, stopArg, acceptedAt>>

\* A mutation call that ended as r, made by a caller of the session
Mutation(r, call, args) ==
    /\ state = "recording" => uuidCounter < MaxUuid
    /\ Called(r, call, args)
    /\ UNCHANGED adapters

\* The session and its history after start(newTitle)
Started(newTitle) ==
    LET r == start(Self, newTitle, now) IN
    /\ Install(r)
    /\ stepFired' = IF state = "recording" THEN r.s.stepFired ELSE <<>>
    /\ stepSeen' = IF state = "recording" THEN r.s.stepSeen ELSE <<>>
    /\ artifact' = Held(artifact, artifactRef, r.s)
    /\ accepted' = IF state = "recording" THEN accepted ELSE <<>>
    /\ lastArgs' = IF state = "recording" THEN lastArgs ELSE None
    /\ lastOp' = IF state = "recording" \/ r.threw
                 THEN [op |-> "start", threw |-> r.threw] ELSE NoOp
    /\ UNCHANGED <<now, artifactRef, stopArg, acceptedAt, recordingIds>>

\* The session and its history after stop(outcome)
Stopped(outcome) ==
    LET r == stop(Self, outcome, now) IN
    /\ Install(r)
    /\ stepFired' = r.s.stepFired
    /\ stepSeen' = r.s.stepSeen
    /\ artifactRef' = IF r.threw THEN artifactRef ELSE stepsRef
    /\ artifact' = IF r.threw THEN Held(artifact, artifactRef, r.s)
                   ELSE Held(r.value, stepsRef, r.s)
    /\ stopArg' = IF r.threw THEN stopArg ELSE Some(outcome)
    /\ acceptedAt' = IF r.threw THEN acceptedAt ELSE accepted
    /\ accepted' = IF r.threw THEN accepted ELSE <<>>
    /\ lastArgs' = IF r.threw THEN lastArgs ELSE None
    /\ lastOp' = IF state # "recording" \/ r.threw
                 THEN [op |-> "stop", threw |-> r.threw] ELSE NoOp
    /\ UNCHANGED <<now, recordingIds>>

Start ==
    \E newTitle \in StartTitles :
        /\ state # "recording" => uuidCounter < MaxUuid
        /\ Started(newTitle)
        /\ UNCHANGED adapters

Stop ==
    \E outcome \in StopOutcomes :
        /\ Stopped(outcome)
        /\ UNCHANGED adapters

AddPrompt ==
    \E content \in PromptContents, options \in PromptOptions :
        Mutation(addPrompt(Self, content, options, now),
                 <<"prompt", content>>,
                 [content |-> content, options |-> options])

AddAction ==
    \E options \in ActionOptions :
        Mutation(addAction(Self, "Created hello world function", options, now),
                 <<"action", "Created hello world function">>,
                 [summary |-> "Created hello world function",
                  options |-> options])

AddTerminal ==
    \E c \in TerminalCalls :
        Mutation(addTerminal(Self, "npm test", c.outcome, c.options, now),
                 <<"terminal", "npm test">>,
                 [command |-> "npm test", outcome |-> c.outcome,
                  options |-> c.options])

AddNote ==
    \E c \in NoteCalls :
        Mutation(addNote(Self, c.content, c.category, now),
                 <<"note", c.content>>,
                 [content |-> c.content, category |-> c.category])

AddCheckpoint ==
    Mutation(addCheckpoint(Self, "Initial Setup", "Project structure created", now),
             <<"checkpoint", "Initial Setup">>,
             [name |-> "Initial Setup", summary |-> "Project structure created"])

AddError ==
    \E c \in ErrorCalls :
        Mutation(addError(Self, "npm install failed", c.resolved, c.resolution, now),
                 <<"error", "npm install failed">>,
                 [message |-> "npm install failed", resolved |-> c.resolved,
                  resolution |-> c.resolution])

SetTitle ==
    \E newTitle \in RenameTitles :
        /\ Install(Returned(setTitle(Self, newTitle)))
        /\ lastOp' = NoOp
        /\ UNCHANGED <<stepFired, stepSeen, now, returned, accepted,
                       recordingIds, lastArgs, adapters>>

Dispose ==
    /\ Install(Returned(dispose(Self)))
    /\ lastOp' = [op |-> "dispose", threw |-> FALSE]
    /\ UNCHANGED <<stepFired, stepSeen, now, returned, accepted, recordingIds,
                   lastArgs, adapters>>

\* Half a second passes on the wall clock
Tick ==
    /\ now < MaxTicks * 500
    /\ now' = now + 500
    /\ lastOp' = NoOp
    /\ UNCHANGED <<session, uuidCounter, emitted, returned, accepted,
                   recordingIds, lastArgs, adapters>>

\* The wall clock is set back by a second: new Date() and Date.now() read
\* the system time, which a clock correction moves backwards
ClockSetBack ==
    /\ now - 1000 >= -(MaxTicks * 500)
    /\ now' = now - 1000
    /\ lastOp' = NoOp
    /\ UNCHANGED <<session, uuidCounter, emitted, returned, accepted,
                   recordingIds, lastArgs, adapters>>

Next ==
    \/ Start
    \/ Stop
    \/ AddPrompt
    \/ AddAction
    \/ AddTerminal
    \/ AddNote
    \/ AddCheckpoint
    \/ AddError
    \/ SetTitle
    \/ Dispose
    \/ Tick

Spec == Init /\ [][Next]_vars

\* The same session under a wall clock that can also be set back
WithinClockBudget == uuidCounter' <= MaxUuidClock

NextClock ==
    \/ Start /\ WithinClockBudget
    \/ Stop
    \/ AddPrompt /\ WithinClockBudget
    \/ AddAction /\ WithinClockBudget
    \/ AddTerminal /\ WithinClockBudget
    \/ AddNote /\ WithinClockBudget
    \/ AddCheckpoint /\ WithinClockBudget
    \/ AddError /\ WithinClockBudget
    \/ SetTitle
    \/ Dispose
    \/ Tick
    \/ ClockSetBack

SpecClock == Init /\ [][NextClock]_vars

\* ------------------------------------ the typical workflow of the test suite
NoPromptOptions == [context |-> UndefinedList, intent |-> Undefined]

\* the calls of 'Should handle typical workflow simulation', in order
WorkflowCalls ==
    <<[kind |-> "prompt", content |-> "Create a React counter component",
       options |-> NoPromptOptions],
      [kind |-> "action", summary |-> "Created Counter.tsx with useState hook",
       options |-> [NoActionOptions EXCEPT
                        !.filesCreated = Arr(<<"src/Counter.tsx">>)]],
      [kind |-> "prompt", content |-> "Add increment and decrement buttons",
       options |-> NoPromptOptions],
      [kind |-> "action", summary |-> "Added button controls and click handlers",
       options |-> [NoActionOptions EXCEPT
                        !.filesModified = Arr(<<"src/Counter.tsx">>)]],
      [kind |-> "note", content |-> "User requested dark mode support",
       category |-> "decision"],
      [kind |-> "prompt", content |-> "Add dark mode styling",
       options |-> NoPromptOptions],
      [kind |-> "action", summary |-> "Added CSS classes for dark mode",
       options |-> [NoActionOptions EXCEPT
                        !.filesModified =
                            Arr(<<"src/Counter.tsx", "src/styles.css">>),
                        !.filesCreated = Arr(<<"src/styles.css">>)]],
      [kind |-> "checkpoint", name |-> "Component Complete",
       summary |-> "Counter component with dark mode support"]>>

WorkflowOutcome ==
    Some([status |-> "success",
          summary |-> "Built fully functional counter component with dark mode"])

\* the session method the call c names, applied at time t
Apply(s, c, t) ==
    CASE c.kind = "prompt" -> addPrompt(s, c.content, c.options, t)
      [] c.kind = "action" -> addAction(s, c.summary, c.options, t)
      [] c.kind = "note" -> addNote(s, c.content, c.category, t)
      [] c.kind = "checkpoint" -> addCheckpoint(s, c.name, c.summary, t)
      [] c.kind = "error" ->
             addError(s, c.message, c.resolved, c.resolution, t)
      [] c.kind = "terminal" ->
             addTerminal(s, c.command, c.outcome, c.options, t)

\* the main argument of the call c
MainOf(c) ==
    CASE c.kind = "prompt" -> c.content
      [] c.kind = "action" -> c.summary
      [] c.kind = "note" -> c.content
      [] c.kind = "checkpoint" -> c.name
      [] c.kind = "error" -> c.message
      [] c.kind = "terminal" -> c.command

WorkflowStart ==
    /\ state = "idle"
    /\ artifact = None
    /\ Started("Full Workflow Simulation")
    /\ UNCHANGED adapters

WorkflowCall ==
    /\ state = "recording"
    /\ Len(issued) < Len(WorkflowCalls)
    /\ LET c == WorkflowCalls[Len(issued) + 1] IN
       /\ Called(Apply(Self, c, now), <<c.kind, MainOf(c)>>, c)
       /\ issued' = Append(issued, c)
    /\ UNCHANGED <<writer, feed, cmd, hosted>>

WorkflowStop ==
    /\ state = "recording"
    /\ Len(issued) = Len(WorkflowCalls)
    /\ Stopped(WorkflowOutcome)
    /\ UNCHANGED adapters

NextWorkflow ==
    \/ WorkflowStart
    \/ WorkflowCall
    \/ WorkflowStop
    \/ Tick
    \/ ClockSetBack

SpecWorkflow == Init /\ [][NextWorkflow]_vars

\* ------------------------------------------------------ the buildlog writer
\* The property names of a step record, in the order the session writes them
StepKeys(type) ==
    CASE type = "prompt" ->
             <<"id", "type", "timestamp", "sequence", "content", "context",
               "intent">>
      [] type = "action" ->
             <<"id", "type", "timestamp", "sequence", "summary",
               "filesCreated", "filesModified", "filesDeleted", "approach">>
      [] type = "terminal" ->
             <<"id", "type", "timestamp", "sequence", "command", "outcome",
               "summary", "exitCode">>
      [] type = "note" ->
             <<"id", "type", "timestamp", "sequence", "content", "category">>
      [] type = "checkpoint" ->
             <<"id", "type", "timestamp", "sequence", "name", "summary">>
      [] type = "error" ->
             <<"id", "type", "timestamp", "sequence", "message", "resolved",
               "resolution">>
MetadataKeys ==
    <<"id", "title", "createdAt", "durationSeconds", "editor", "aiProvider",
      "replicable">>
OutcomeKeys ==
    <<"status", "summary", "filesCreated", "filesModified", "canReplicate">>

\* whether the value v of the step property k is undefined
IsUndefined(k, v) ==
    CASE k \in {"id", "timestamp", "sequence", "resolved"} -> FALSE
      [] k \in {"context", "filesCreated", "filesModified", "filesDeleted"} ->
             v = UndefinedList
      [] k = "exitCode" -> v = None
      [] OTHER -> v = Undefined

\* JSON.stringify of an object whose properties are all defined: its
\* members, in property order
JSONstringifyObject(o, keys) == [i \in DOMAIN keys |-> <<keys[i], o[keys[i]]>>]

\* a JSON.stringify of a step that writes an undefined string as "" and an
\* undefined list as []
JSONstringifyStepDefaulting(st) ==
    LET keys == StepKeys(st.type)
        Written(k) == k # "exitCode" \/ st[k] # None
        kept == SelectSeq(keys, Written)
        Value(k) == IF ~IsUndefined(k, st[k]) THEN st[k]
                    ELSE IF k \in {"context", "filesCreated", "filesModified",
                                    "filesDeleted"}
                         THEN Arr(<<>>) ELSE ""
    IN  [i \in DOMAIN kept |-> <<kept[i], Value(kept[i])>>]

\* JSON.stringify of a step: a property whose value is undefined is left out
JSONstringifyStep(st) ==
    LET keys == StepKeys(st.type)
        Defined(k) == ~IsUndefined(k, st[k])
        kept == SelectSeq(keys, Defined)
    IN  [i \in DOMAIN kept |-> <<kept[i], st[kept[i]]>>]

\* JSON.stringify(buildlog, null, 2)
JSONstringify(log) ==
    <<<<"version", log.version>>,
      <<"format", log.format>>,
      <<"metadata", JSONstringifyObject(log.metadata, MetadataKeys)>>,
      <<"steps", [i \in DOMAIN log.steps |-> JSONstringifyStep(log.steps[i])]>>,
      <<"outcome", JSONstringifyObject(log.outcome, OutcomeKeys)>>>>

\* JSON.parse of an object: the object that has the members as properties
JSONparseObject(members) ==
    [k \in {members[i][1] : i \in DOMAIN members} |->
        members[CHOOSE i \in DOMAIN members : members[i][1] = k][2]]

\* JSON.parse of the text of a buildlog
JSONparse(text) ==
    [version |-> text[1][2],
     format |-> text[2][2],
     metadata |-> JSONparseObject(text[3][2]),
     steps |-> [i \in DOMAIN text[4][2] |-> JSONparseObject(text[4][2][i])],
     outcome |-> JSONparseObject(text[5][2])]

\* BuildlogWriter.write(buildlog), for the artifact stop() returned
Write ==
    /\ artifact # None
    /\ written' = Some([of |-> artifact[1],
                        content |-> JSONstringify(artifact[1])])
    /\ lastOp' = NoOp
    /\ UNCHANGED <<session, uuidCounter, emitted, now, returned, accepted,
                   recordingIds, lastArgs, readBack, feed, issued, cmd, hosted>>

\* BuildlogWriter.read(filePath), for the file last written
Read ==
    /\ written # None
    /\ readBack' = Some([of |-> written[1].of,
                         value |-> JSONparse(written[1].content)])
    /\ lastOp' = NoOp
    /\ UNCHANGED <<session, uuidCounter, emitted, now, returned, accepted,
                   recordingIds, lastArgs, written, feed, issued, cmd, hosted>>

WithinWriterBudget == uuidCounter' <= MaxUuidWriter

NextWriter ==
    \/ Start /\ WithinWriterBudget
    \/ Stop
    \/ AddPrompt /\ WithinWriterBudget
    \/ AddAction /\ WithinWriterBudget
    \/ AddTerminal /\ WithinWriterBudget
    \/ AddNote /\ WithinWriterBudget
    \/ AddCheckpoint /\ WithinWriterBudget
    \/ AddError /\ WithinWriterBudget
    \/ Tick
    \/ Write
    \/ Read

SpecWriter == Init /\ [][NextWriter]_vars

\* ----------------------------------------------------- the agent feed watcher
\* The text of a feed line: a JSON object given by its members, the JSON
\* value null, or text that is not JSON
ObjectText(members) == [json |-> "object", members |-> members]
NullText == [json |-> "null", members |-> <<>>]
NotJSON == [json |-> "garbage", members |-> <<>>]

\* lines an agent appends: a prompt, a prompt without content, a note and
\* a line that is not JSON
CommonLines ==
    <<ObjectText(<<<<"type", "prompt">>, <<"content", "Build a CTA component">>,
                   <<"intent", "cta">>, <<"context", Arr(<<"app.js">>)>>>>),
      ObjectText(<<<<"type", "prompt">>>>),
      ObjectText(<<<<"type", "note">>,
                   <<"content", "User wanted hover effects">>>>),
      NotJSON>>

\* a line of every kind
FeedLines ==
    CommonLines \o
    <<ObjectText(<<<<"type", "prompt">>, <<"raw", "Please build a CTA">>,
                   <<"content", "Build a CTA component">>,
                   <<"intent", "cta">>>>),
      ObjectText(<<<<"type", "prompt">>, <<"raw", "">>,
                   <<"content", "Build a CTA component">>>>),
      ObjectText(<<<<"type", "action">>, <<"summary", "Created CTA function">>,
                   <<"filesModified", Arr(<<"app.js">>)>>>>),
      ObjectText(<<<<"type", "action">>, <<"content", "Styled the button">>>>),
      ObjectText(<<<<"type", "error">>, <<"message", "Build failed">>>>),
      ObjectText(<<<<"type", "checkpoint">>, <<"name", "CTA done">>>>),
      ObjectText(<<<<"type", "terminal">>, <<"command", "npm test">>>>),
      ObjectText(<<<<"content", "no type">>>>),
      NullText>>

\* entry.k for a parsed entry: undefined when the object has no member k
Prop(entry, k) ==
    IF k \in DOMAIN entry THEN entry[k]
    ELSE CASE k \in {"context", "filesCreated", "filesModified",
                     "filesDeleted"} -> UndefinedList
           [] k = "resolved" -> None
           [] OTHER -> Undefined

\* a || b for strings
OrElse(a, b) == IF a \notin {Undefined, ""} THEN a ELSE b

\* a mapping that mistakes an entry of any other type for a note
EntryCallNotingOthers(entry) ==
    Some([kind |-> "note", content |-> Prop(entry, "content"),
          category |-> Prop(entry, "category")])

\* a mapping whose prompts prefer content over raw
EntryCallContentFirst(entry) ==
    Some([kind |-> "prompt",
          content |-> OrElse(Prop(entry, "content"), Prop(entry, "raw")),
          options |-> [context |-> Prop(entry, "context"),
                       intent |-> Prop(entry, "intent")]])

\* the session call addEntryToSession makes for an entry, if any
EntryCall(entry) ==
    LET type == Prop(entry, "type") IN
    CASE type = "prompt" ->
             Some([kind |-> "prompt",
                   content |-> OrElse(Prop(entry, "raw"),
                                      Prop(entry, "content")),
                   options |->
                       [context |-> Prop(entry, "context"),
                        intent |-> IF Prop(entry, "raw") \notin {Undefined, ""}
                                   THEN Prop(entry, "content")
                                   ELSE Prop(entry, "intent")]])
      [] type = "action" ->
             Some([kind |-> "action",
                   summary |-> OrElse(Prop(entry, "summary"),
                                      OrElse(Prop(entry, "content"),
                                             "Action performed")),
                   options |->
                       [filesCreated |-> Prop(entry, "filesCreated"),
                        filesModified |-> Prop(entry, "filesModified"),
                        filesDeleted |-> Prop(entry, "filesDeleted"),
                        approach |-> Prop(entry, "approach")]])
      [] type = "note" ->
             Some([kind |-> "note", content |-> Prop(entry, "content"),
                   category |-> Prop(entry, "category")])
      [] type = "error" ->
             Some([kind |-> "error", message |-> Prop(entry, "message"),
                   resolved |-> Prop(entry, "resolved"),
                   resolution |-> Prop(entry, "resolution")])
      [] type = "checkpoint" ->
             Some([kind |-> "checkpoint", name |-> Prop(entry, "name"),
                   summary |-> Prop(entry, "summary")])
      [] OTHER -> None

\* the call made for a line of text, if any: JSON.parse throws on text that
\* is not JSON, and addEntryToSession throws reading the type of null
LineCall(text) ==
    IF text.json = "object" THEN EntryCall(JSONparseObject(text.members))
    ELSE None

\* newContent.split('\n').filter(line => line.trim()) for the pieces of the
\* file past the cursor: one line for every whole line, and one for a
\* piece of a line whose other piece is not among them
SplitLines(pieces) ==
    LET n == Len(pieces)
        Ends(i) == ~(pieces[i].part = "head" /\ i < n)
        ends == SelectSeq([i \in 1..n |-> i], Ends)
        LineAt(i) ==
            [line |-> pieces[i].line,
             text |-> IF \/ pieces[i].part = "whole"
                         \/ pieces[i].part = "tail" /\ i > 1
                      THEN pieces[i].text ELSE NotJSON]
    IN  [j \in DOMAIN ends |-> LineAt(ends[j])]

\* the record of a call made for the line: whether it threw, and where its
\* step is in the log
CallRecord(line, call, r) ==
    [line |-> line.line, call |-> call, threw |-> r.threw,
     at |-> IF r.threw THEN 0 ELSE Len(r.s.steps)]

\* a loop over the lines that ends at the first line that fails
RECURSIVE ForEachLineUntilFailure(_, _, _, _)
ForEachLineUntilFailure(acc, lines, i, t) ==
    IF i > Len(lines) THEN acc
    ELSE LET call == LineCall(lines[i].text) IN
         IF call = None
         THEN IF lines[i].text.json = "object" /\
                 "type" \in DOMAIN JSONparseObject(lines[i].text.members)
              THEN ForEachLineUntilFailure(acc, lines, i + 1, t)
              ELSE acc
         ELSE LET r == Apply(acc.s, call[1], t)
                  next == [s |-> r.s,
                           calls |-> Append(acc.calls,
                                            CallRecord(lines[i], call[1], r))]
              IN  IF r.threw THEN next
                  ELSE ForEachLineUntilFailure(next, lines, i + 1, t)

\* the loop of processNewLines over the lines from the i-th on: each line is
\* parsed and added to the session inside its own try block
RECURSIVE ForEachLine(_, _, _, _)
ForEachLine(acc, lines, i, t) ==
    IF i > Len(lines) THEN acc
    ELSE LET call == LineCall(lines[i].text) IN
         IF call = None THEN ForEachLine(acc, lines, i + 1, t)
         ELSE LET r == Apply(acc.s, call[1], t) IN
              ForEachLine([s |-> r.s,
                           calls |-> Append(acc.calls,
                                            CallRecord(lines[i], call[1], r))],
                          lines, i + 1, t)

\* a processNewLines that reads the whole file every time
processNewLinesFromTheTop(s, file, position, t) ==
    IF s.state # "recording"
    THEN [s |-> s, calls |-> <<>>, position |-> position]
    ELSE LET done == ForEachLine([s |-> s, calls |-> <<>>],
                                 SplitLines(file), 1, t)
         IN  [s |-> done.s, calls |-> done.calls, position |-> Len(file)]

\* processNewLines() of a watcher whose cursor is at position, on a file
\* that holds the pieces file: the session, the cursor and the calls made
processNewLines(s, file, position, t) ==
    IF s.state # "recording"
    THEN [s |-> s, calls |-> <<>>, position |-> position]
    ELSE LET newContent == SubSeq(file, position + 1, Len(file))
             done == ForEachLine([s |-> s, calls |-> <<>>],
                                 SplitLines(newContent), 1, t)
         IN  [s |-> done.s, calls |-> done.calls, position |-> Len(file)]

\* The session, the watcher and their history after a processNewLines()
\* that ended as p
Processed(p) ==
    LET made == SelectSeq(p.calls, LAMBDA c : ~c.threw) IN
    /\ p.s.uuidCounter <= MaxUuidFeed
    /\ Install([s |-> p.s])
    /\ stepFired' = p.s.stepFired
    /\ stepSeen' = p.s.stepSeen
    /\ artifact' = Held(artifact, artifactRef, p.s)
    /\ accepted' = accepted \o
                       [i \in DOMAIN made |->
                           <<made[i].call.kind, MainOf(made[i].call)>>]
    /\ recordingIds' = recordingIds \cup ((uuidCounter + 1) .. p.s.uuidCounter)
    /\ lastArgs' = IF made = <<>> THEN lastArgs
                   ELSE Some(made[Len(made)].call)
    /\ lastPosition' = p.position
    /\ issued' = issued \o p.calls
    /\ ingested' = IF p.position = lastPosition THEN ingested
                   ELSE Append(ingested,
                               SubSeq(feedFile, lastPosition + 1, p.position))
    /\ UNCHANGED <<now, artifactRef, stopArg, acceptedAt, writer, feedFile,
                   fileMtime, cmd, hosted>>

FeedTitle == "Agent session"

\* a start of the watcher that leaves the feed file as it is
keepFile(file) == file

\* fs.writeFileSync(GLOBAL_FEED_PATH, ''): the content of the file after it
writeFileSyncEmpty(file) == <<>>

\* The start recording command, given once: session.start(), whose state
\* change makes the extension start the watcher
FeedStart ==
    /\ state = "idle"
    /\ artifact = None
    /\ Started(FeedTitle)
    /\ feedFile' = writeFileSyncEmpty(feedFile)
    /\ fileMtime' = Some(now)
    /\ lastPosition' = 0
    /\ lastMtime' = None
    /\ issued' = <<>>
    /\ ingested' = <<>>
    /\ UNCHANGED <<writer, cmd, hosted>>

\* The stop recording command: session.stop(), whose state change makes the
\* extension stop the watcher
FeedStop ==
    /\ state = "recording"
    /\ Stopped(None)
    /\ UNCHANGED adapters

\* the lines begun in the file
LinesBegun(file) == Cardinality({file[i].line : i \in DOMAIN file})
\* whether the last line of the file is still being written
Unfinished(file) == file # <<>> /\ file[Len(file)].part = "head"

\* A write to the file by an agent, at the current time
Appended(piece) ==
    /\ feedFile' = Append(feedFile, piece)
    /\ fileMtime' = Some(now)
    /\ lastOp' = NoOp
    /\ UNCHANGED <<session, uuidCounter, emitted, now, returned, accepted,
                   recordingIds, lastArgs, writer, lastPosition, lastMtime,
                   issued, ingested, cmd, hosted>>

\* An agent appends a line in one write
AppendLine ==
    /\ state = "recording"
    /\ ~Unfinished(feedFile)
    /\ LinesBegun(feedFile) < MaxFeedLines
    /\ \E i \in DOMAIN CommonLines :
           Appended([line |-> LinesBegun(feedFile) + 1, part |-> "whole",
                     text |-> CommonLines[i]])

\* An agent appends a line of any kind in one write
AppendEntry ==
    /\ state = "recording"
    /\ LinesBegun(feedFile) < MaxFeedEntries
    /\ \E i \in DOMAIN FeedLines :
           Appended([line |-> LinesBegun(feedFile) + 1, part |-> "whole",
                     text |-> FeedLines[i]])

\* An agent's append reaches the file in two writes: the first
AppendHead ==
    /\ state = "recording"
    /\ ~Unfinished(feedFile)
    /\ LinesBegun(feedFile) < MaxFeedLines
    /\ \E i \in DOMAIN CommonLines :
           /\ CommonLines[i].json = "object"
           /\ Appended([line |-> LinesBegun(feedFile) + 1, part |-> "head",
                        text |-> CommonLines[i]])

\* and the second
AppendTail ==
    /\ state = "recording"
    /\ Unfinished(feedFile)
    /\ Appended([feedFile[Len(feedFile)] EXCEPT !.part = "tail"])

\* A tick of the poll timer: checkForChanges()
PollTick ==
    /\ state = "recording"
    /\ IF lastMtime = None \/ fileMtime[1] > lastMtime[1]
       THEN /\ lastMtime' = fileMtime
            /\ Processed(processNewLines(Self, feedFile, lastPosition, now))
       ELSE UNCHANGED <<session, uuidCounter, emitted, now, returned, accepted,
                        recordingIds, lastArgs, adapters>>
    /\ lastOp' = [op |-> "poll", threw |-> FALSE]

\* A change event of fs.watch: processNewLines()
WatchCallback ==
    /\ state = "recording"
    /\ Processed(processNewLines(Self, feedFile, lastPosition, now))
    /\ lastOp' = [op |-> "watch", threw |-> FALSE]
    /\ UNCHANGED lastMtime

NextFeed ==
    \/ FeedStart
    \/ FeedStop
    \/ AppendLine
    \/ AppendHead
    \/ AppendTail
    \/ PollTick
    \/ WatchCallback
    \/ Tick

SpecFeed == Init /\ [][NextFeed]_vars

NextFeedEntries ==
    \/ FeedStart
    \/ FeedStop
    \/ AppendEntry
    \/ PollTick
    \/ WatchCallback
    \/ Tick

SpecFeedEntries == Init /\ [][NextFeedEntries]_vars

\* The start recording command, given again after a recording
FeedRestart ==
    /\ state = "idle"
    /\ artifact # None
    /\ uuidCounter < MaxUuidSessions
    /\ Started(FeedTitle)
    /\ feedFile' = writeFileSyncEmpty(feedFile)
    /\ fileMtime' = Some(now)
    /\ lastPosition' = 0
    /\ lastMtime' = None
    /\ issued' = <<>>
    /\ ingested' = <<>>
    /\ UNCHANGED <<writer, cmd, hosted>>

\* An agent appends a prompt in one write, whether a recording is in
\* progress or not; the entry's context names the session that is recording
\* at that time, or 0
AppendTagged ==
    /\ LinesBegun(feedFile) < MaxFeedEntries
    /\ Appended([line |-> LinesBegun(feedFile) + 1, part |-> "whole",
                 text |-> ObjectText(
                     <<<<"type", "prompt">>,
                       <<"content", "Build a CTA component">>,
                       <<"context",
                         Arr(<<IF state = "recording" THEN sessionId
                               ELSE 0>>)>>>>)])

\* Processed, within the bound of this specification
WithinSessionsBudget == uuidCounter' <= MaxUuidSessions

NextFeedSessions ==
    \/ FeedStart
    \/ FeedRestart
    \/ FeedStop
    \/ AppendTagged
    \/ PollTick /\ WithinSessionsBudget
    \/ WatchCallback /\ WithinSessionsBudget
    \/ Tick

SpecFeedSessions == Init /\ [][NextFeedSessions]_vars

\* ------------------------------------------------------ the manual commands
\* what the user may have typed into an input when it closes
Typed == {"", " ", "Fix the bug", " Fix the bug "}
FilesTyped == {"", " , ", "src/Counter.tsx, src/Counter.css"}

\* String.prototype.trim, on what the user may type
Trim(str) ==
    CASE str = " " -> ""
      [] str = " Fix the bug " -> "Fix the bug"
      [] OTHER -> str

\* filesInput.split(',').map(f => f.trim()).filter(f => f.length > 0)
SplitFiles(filesInput) ==
    IF filesInput = "src/Counter.tsx, src/Counter.css"
    THEN Arr(<<"src/Counter.tsx", "src/Counter.css">>) ELSE Arr(<<>>)

\* The ways showMultilineInput() resolves: with the trimmed text when the
\* user saves text that is not blank (the web view posts nothing for blank
\* text), with undefined when the user cancels or closes the panel
showMultilineInput ==
    {[typed |-> Undefined, content |-> Undefined]} \cup
    {[typed |-> typed, content |-> Trim(typed)] :
        typed \in {typed \in Typed : Trim(typed) # ""}}

\* The ways the summary input box resolves: with the text as typed when it
\* passes validateInput, with undefined when the user cancels
showInputBox ==
    {[typed |-> Undefined, content |-> Undefined]} \cup
    {[typed |-> typed, content |-> typed] :
        typed \in {typed \in Typed : ~(typed = "" \/ Trim(typed) = "")}}

\* a command that takes whatever the input resolved with
SuppliedAlways(content) == TRUE

\* the negation of !content: the input resolved with text
Supplied(content) == content \notin {Undefined, ""}

\* A command is invoked: it returns at once unless a recording is in
\* progress, and asks for the content otherwise
Invoke ==
    /\ cmd.pc = "done"
    /\ \E kind \in {"prompt", "action", "note"} :
           cmd' = [NoCommand EXCEPT
                      !.kind = kind,
                      !.pc = IF isRecording(Self) THEN "content" ELSE "done"]
    /\ issued' = <<>>
    /\ lastOp' = NoOp
    /\ UNCHANGED <<session, uuidCounter, emitted, now, returned, accepted,
                   recordingIds, lastArgs, writer, feed, hosted>>

\* The command goes on to next without a session call
CommandStep(next) ==
    /\ cmd' = next
    /\ lastOp' = NoOp
    /\ UNCHANGED <<session, uuidCounter, emitted, now, returned, accepted,
                   recordingIds, lastArgs, writer, feed, issued,
                   hosted>>

\* The command makes the session call c and returns
CommandCall(c, next) ==
    /\ state = "recording" => uuidCounter < MaxUuidCommands
    /\ Called(Apply(Self, c, now), <<c.kind, MainOf(c)>>, c)
    /\ issued' = Append(issued, c)
    /\ cmd' = [next EXCEPT !.pc = "done", !.calls = @ + 1]
    /\ UNCHANGED <<writer, feed, hosted>>

\* The content input of add prompt closes
PromptEntered ==
    /\ cmd.pc = "content"
    /\ cmd.kind = "prompt"
    /\ \E input \in showMultilineInput :
           LET next == [cmd EXCEPT !.typed = input.typed,
                                   !.content = input.content] IN
           IF ~Supplied(input.content)
           THEN CommandStep([next EXCEPT !.pc = "done"])
           ELSE \E context \in {UndefinedList, Arr(<<"main.js">>)} :
                    CommandCall([kind |-> "prompt", content |-> input.content,
                                 options |-> [context |-> context,
                                              intent |-> Undefined]],
                                next)

\* The content input of add note closes
NoteEntered ==
    /\ cmd.pc = "content"
    /\ cmd.kind = "note"
    /\ \E input \in showMultilineInput :
           LET next == [cmd EXCEPT !.typed = input.typed,
                                   !.content = input.content] IN
           CommandStep([next EXCEPT !.pc = IF ~Supplied(input.content)
                                           THEN "done" ELSE "category"])

\* The category pick of add note closes
CategoryPicked ==
    /\ cmd.pc = "category"
    /\ \E category \in {Undefined, "tip", "decision"} :
           CommandCall([kind |-> "note", content |-> cmd.content,
                        category |-> category], cmd)

\* The summary input of add action closes
SummaryEntered ==
    /\ cmd.pc = "content"
    /\ cmd.kind = "action"
    /\ \E input \in showInputBox :
           LET next == [cmd EXCEPT !.typed = input.typed,
                                   !.content = input.content] IN
           CommandStep([next EXCEPT !.pc = IF ~Supplied(input.content)
                                           THEN "done" ELSE "files"])

\* The files input of add action closes
FilesEntered ==
    /\ cmd.pc = "files"
    /\ \E filesInput \in FilesTyped \cup {Undefined} :
           IF filesInput \notin {Undefined, ""} /\
              SplitFiles(filesInput) # Arr(<<>>)
           THEN CommandStep([cmd EXCEPT !.pc = "changeType",
                                        !.files = SplitFiles(filesInput)])
           ELSE CommandCall([kind |-> "action", summary |-> cmd.content,
                             options |-> NoActionOptions], cmd)

\* The created-or-modified pick of add action closes
ChangeTypePicked ==
    /\ cmd.pc = "changeType"
    /\ \E changeType \in {Undefined, "Created", "Modified", "Mix of both"} :
           CommandCall(
               [kind |-> "action", summary |-> cmd.content,
                options |->
                    [NoActionOptions EXCEPT
                        !.filesCreated = IF changeType = "Created"
                                         THEN cmd.files ELSE UndefinedList,
                        !.filesModified =
                            IF changeType \in {"Modified", "Mix of both"}
                            THEN cmd.files ELSE UndefinedList]],
               cmd)

NextCommands ==
    \/ FeedStart
    \/ FeedStop
    \/ Invoke
    \/ PromptEntered
    \/ NoteEntered
    \/ CategoryPicked
    \/ SummaryEntered
    \/ FilesEntered
    \/ ChangeTypePicked
    \/ Tick

SpecCommands == Init /\ [][NextCommands]_vars

\* --------------------------------------------- the watchers in the extension
\* the delay of the debounce timeout, in milliseconds
DebounceMs == 2000

\* the workspace paths whose changes are observed
WatchedPaths == {"src/app.ts", "src/Counter.tsx", "src/login.ts"}
\* the kinds of change event that occur (a deletion is handled alike)
ChangeTypes == {"created", "modified"}

\* shouldIgnoreFile(path): no watched path starts with an ignored folder or
\* holds .DS_Store; the pattern '*.log' is tested as the regular expression
\* .*.log, which 'src/login.ts' matches at '/log'
shouldIgnoreFile(path) == path = "src/login.ts"

\* AgentFeedWatcher.start(), as to its timer
agentFeedWatcherStart(w) ==
    [pollInterval |-> Some("interval"), intervals |-> w.intervals + 1]

\* a stop() of the feed watcher that forgets the timer without clearing it
agentFeedWatcherStopForgets(w) ==
    [pollInterval |-> None, intervals |-> w.intervals]

\* AgentFeedWatcher.stop(), as to its timer
agentFeedWatcherStop(w) ==
    IF w.pollInterval # None
    THEN [pollInterval |-> None, intervals |-> w.intervals - 1]
    ELSE w

\* The file change watcher as a record of its fields and of what it holds
\* in the runtime
FileWatcher ==
    [watcher |-> watcher, watchers |-> watchers,
     pendingChanges |-> pendingChanges, timeouts |-> timeouts]

\* FileChangeWatcher.start()
fileWatcherStart(fw) ==
    [fw EXCEPT !.watcher = Some("watcher"), !.watchers = @ + 1]

\* a stop() of the file change watcher that leaves the timeouts pending
fileWatcherStopKeepsTimeouts(fw) ==
    [fw EXCEPT !.watcher = None,
               !.watchers = IF fw.watcher # None THEN @ - 1 ELSE @,
               !.pendingChanges = <<>>]

\* FileChangeWatcher.stop()
fileWatcherStop(fw) ==
    [fw EXCEPT !.watcher = None,
               !.watchers = IF fw.watcher # None THEN @ - 1 ELSE @,
               !.timeouts = @ \ Range(fw.pendingChanges),
               !.pendingChanges = <<>>]

\* a handleFileChange that sets a timeout without clearing the pending one
handleFileChangeKeepsPending(fw, s, path, changeType, t) ==
    IF s.state # "recording" \/ shouldIgnoreFile(path) THEN fw
    ELSE LET timeout == [path |-> path, changeType |-> changeType,
                         due |-> t + DebounceMs, of |-> s.sessionId]
         IN  [fw EXCEPT
                 !.timeouts = @ \cup {timeout},
                 !.pendingChanges =
                     [p \in DOMAIN @ \cup {path} |->
                         IF p = path THEN timeout ELSE @[p]]]

\* handleFileChange(uri, changeType) at time t, for the session s
handleFileChange(fw, s, path, changeType, t) ==
    IF s.state # "recording" \/ shouldIgnoreFile(path) THEN fw
    ELSE LET existing == IF path \in DOMAIN fw.pendingChanges
                         THEN {fw.pendingChanges[path]} ELSE {}
             timeout == [path |-> path, changeType |-> changeType,
                         due |-> t + DebounceMs, of |-> s.sessionId]
         IN  [fw EXCEPT
                 !.timeouts = (@ \ existing) \cup {timeout},
                 !.pendingChanges =
                     [p \in DOMAIN @ \cup {path} |->
                         IF p = path THEN timeout ELSE @[p]]]

\* the session call recordFileChange(relativePath, changeType) makes
FileChangeCall(path, changeType) ==
    CASE changeType = "created" ->
             [kind |-> "action", summary |-> "Created " \o path,
              options |-> [NoActionOptions EXCEPT
                              !.filesCreated = Arr(<<path>>)]]
      [] changeType = "modified" ->
             [kind |-> "action", summary |-> "Modified " \o path,
              options |-> [NoActionOptions EXCEPT
                              !.filesModified = Arr(<<path>>)]]
      [] changeType = "deleted" ->
             [kind |-> "action", summary |-> "Deleted " \o path,
              options |-> [NoActionOptions EXCEPT
                              !.filesDeleted = Arr(<<path>>)]]

\* The watchers after a step that left the file change watcher as fw
InstallFileWatcher(fw) ==
    /\ watcher' = fw.watcher
    /\ watchers' = fw.watchers
    /\ pendingChanges' = fw.pendingChanges
    /\ timeouts' = fw.timeouts

\* The start recording command: session.start(), whose state change runs
\* the extension's handler up to its await: the feed watcher is started
HostStart ==
    /\ state = "idle"
    /\ continuation = None
    /\ uuidCounter < MaxUuidWatchers
    /\ Started(FeedTitle)
    /\ feedFile' = writeFileSyncEmpty(feedFile)
    /\ fileMtime' = Some(now)
    /\ lastPosition' = 0
    /\ lastMtime' = None
    /\ issued' = <<>>
    /\ ingested' = <<>>
    /\ LET w == agentFeedWatcherStart([pollInterval |-> pollInterval,
                                       intervals |-> intervals]) IN
       /\ pollInterval' = w.pollInterval
       /\ intervals' = w.intervals
    /\ continuation' = Some("recording")
    /\ UNCHANGED <<writer, cmd, watcher, watchers, pendingChanges, timeouts,
                   observed, lastChatRequest, chats, stopping, saved>>

\* The handler goes on after its await, before anything else runs: the
\* file change watcher is started
HandlerContinues ==
    /\ continuation # None
    /\ InstallFileWatcher(fileWatcherStart(FileWatcher))
    /\ continuation' = None
    /\ lastOp' = NoOp
    /\ UNCHANGED <<session, uuidCounter, emitted, now, returned, accepted,
                   recordingIds, lastArgs, writer, feed, issued, cmd,
                   pollInterval, intervals, observed, lastChatRequest, chats,
                   stopping, saved>>

\* The stop recording command: session.stop(), whose state change runs the
\* extension's handler to its end: both watchers are stopped
HostStop ==
    /\ state = "recording"
    /\ continuation = None
    /\ Stopped(None)
    /\ LET w == agentFeedWatcherStop([pollInterval |-> pollInterval,
                                      intervals |-> intervals]) IN
       /\ pollInterval' = w.pollInterval
       /\ intervals' = w.intervals
    /\ InstallFileWatcher(fileWatcherStop(FileWatcher))
    /\ UNCHANGED <<writer, feed, issued, cmd, continuation, observed,
                   lastChatRequest, chats, stopping, saved>>

\* A change event of the file system watcher
FileChanged ==
    /\ continuation = None
    /\ watchers > 0
    /\ \E path \in WatchedPaths, changeType \in ChangeTypes :
           /\ InstallFileWatcher(
                  handleFileChange(FileWatcher, Self, path, changeType, now))
           /\ observed' =
                  [p \in DOMAIN observed \cup {path} |->
                      IF p = path
                      THEN [changeType |-> changeType, at |-> now,
                            of |-> sessionId, recorded |-> 0,
                            burst |-> path \in DOMAIN pendingChanges]
                      ELSE observed[p]]
    /\ lastOp' = NoOp
    /\ UNCHANGED <<session, uuidCounter, emitted, now, returned, accepted,
                   recordingIds, lastArgs, writer, feed, issued, cmd,
                   pollInterval, intervals, continuation, lastChatRequest,
                   chats, stopping, saved>>

\* A debounce timeout fires: recordFileChange(), and the path's entry of
\* pendingChanges is deleted
TimeoutFires ==
    /\ continuation = None
    /\ \E timeout \in timeouts :
           /\ now >= timeout.due
           /\ timeouts' = timeouts \ {timeout}
           /\ pendingChanges' = [p \in DOMAIN pendingChanges \ {timeout.path}
                                    |-> pendingChanges[p]]
           /\ IF state = "recording"
              THEN LET c == FileChangeCall(timeout.path, timeout.changeType)
                   IN  /\ uuidCounter < MaxUuidWatchers
                       /\ Called(Apply(Self, c, now), <<c.kind, MainOf(c)>>, c)
                       /\ observed' =
                              [observed EXCEPT
                                  ![timeout.path].recorded = @ + 1]
              ELSE /\ lastOp' = NoOp
                   /\ UNCHANGED <<session, uuidCounter, emitted, now,
                                  returned, accepted, recordingIds, lastArgs,
                                  observed>>
    /\ UNCHANGED <<writer, feed, issued, cmd, pollInterval, intervals,
                   watcher, watchers, continuation, lastChatRequest, chats,
                   stopping, saved>>

\* Half the debounce delay passes
Wait ==
    /\ continuation = None
    /\ now < MaxWaits * 1000
    /\ now' = now + DebounceMs \div 2
    /\ lastOp' = NoOp
    /\ UNCHANGED <<session, uuidCounter, emitted, returned, accepted,
                   recordingIds, lastArgs, adapters>>

NextWatchers ==
    \/ HostStart
    \/ HandlerContinues
    \/ HostStop
    \/ FileChanged
    \/ TimeoutFires
    \/ Wait

SpecWatchers == Init /\ [][NextWatchers]_vars

\* ---------------------------------------------------------- the chat capture
\* the age, in milliseconds, beyond which the global interceptor ignores a
\* response
StaleAfter == 30000

\* the text of the user's message
ChatPrompt == "Create a hello world function"
\* the texts a model response can have
ChatResponses ==
    {"", "Use a for loop.", "Edit src/app.ts.\n\nThen run it."}

\* createSummary(text): the first paragraph, which is at most 200
\* characters long for each of the texts above
createSummary(text) ==
    CASE text = "" -> ""
      [] text = "Use a for loop." -> "Use a for loop."
      [] text = "Edit src/app.ts.\n\nThen run it." -> "Edit src/app.ts."

\* extractFileMentions(text), extractFilePaths(text): the paths with a
\* folder, then the bare file names
extractFileMentions(text) ==
    CASE text = "" -> <<>>
      [] text = "Use a for loop." -> <<>>
      [] text = "Edit src/app.ts.\n\nThen run it." -> <<"src/app.ts", "app.ts">>

\* the addPrompt call of a chat request: the interceptor passes the context
\* extractFilesFromContext() returns, the participant the references of the
\* request (none here) and its command (none here)
ChatPromptCall(via) ==
    [kind |-> "prompt", content |-> ChatPrompt,
     options |-> IF via = "interceptor"
                 THEN [context |-> UndefinedList, intent |-> Undefined]
                 ELSE [context |-> Arr(<<>>), intent |-> Undefined]]

\* the addAction call of a chat response; none of the texts is longer than
\* 500 characters
ChatActionCall(text) ==
    [kind |-> "action", summary |-> createSummary(text),
     options |-> [NoActionOptions EXCEPT
                     !.filesModified =
                         IF Len(extractFileMentions(text)) > 0
                         THEN Arr(extractFileMentions(text))
                         ELSE UndefinedList]]

\* a chat request as the platform and the history know it
ChatRequest(via, captured) ==
    [via |-> via, at |-> now, captured |-> captured,
     of |-> IF captured THEN sessionId ELSE 0,
     promptId |-> IF captured THEN uuidCounter + 1 ELSE 0,
     pending |-> TRUE, actions |-> <<>>]

\* the action recorded at this moment from a response with this text
ChatAction(text) ==
    [id |-> uuidCounter + 1, of |-> sessionId, at |-> now, text |-> text]

\* the request lastChatRequest was stored for: the last one the interceptor
\* captured
LastCaptured ==
    LET captured == {i \in DOMAIN chats :
                        chats[i].via = "interceptor" /\ chats[i].captured}
    IN  CHOOSE i \in captured : \A j \in captured : j <= i

\* a response listener that records whatever the age of the request
tooOldNever(request, t) == FALSE

\* Date.now() - lastChatRequest.timestamp > 30000
tooOld(request, t) == t - request.timestamp > StaleAfter

\* lastChatRequest = undefined
clear(request) == None

\* The session did not change in this step
SessionIdle ==
    /\ lastOp' = NoOp
    /\ UNCHANGED <<session, uuidCounter, emitted, now, returned, accepted,
                   recordingIds, lastArgs>>

\* onDidSendChatModelRequest: the request listener of the interceptor
RequestSent ==
    /\ continuation = None
    /\ Len(chats) < MaxChats
    /\ IF state = "recording"
       THEN LET c == ChatPromptCall("interceptor") IN
            /\ Called(Apply(Self, c, now), <<c.kind, MainOf(c)>>, c)
            /\ lastChatRequest' =
                   Some([prompt |-> ChatPrompt, timestamp |-> now])
            /\ chats' = Append(chats, ChatRequest("interceptor", TRUE))
       ELSE /\ SessionIdle
            /\ chats' = Append(chats, ChatRequest("interceptor", FALSE))
            /\ UNCHANGED lastChatRequest
    /\ UNCHANGED <<writer, feed, issued, cmd, pollInterval, intervals,
                   watcher, watchers, pendingChanges, timeouts, continuation,
                   observed, stopping, saved>>

\* onDidReceiveChatModelResponse: the response listener of the interceptor,
\* for the response to a request that has none yet
ResponseReceived ==
    /\ continuation = None
    /\ \E i \in DOMAIN chats, text \in ChatResponses :
           /\ chats[i].via = "interceptor"
           /\ chats[i].pending
           /\ IF /\ state = "recording"
                 /\ lastChatRequest # None
                 /\ ~tooOld(lastChatRequest[1], now)
                 /\ text # ""
              THEN LET c == ChatActionCall(text) IN
                   /\ Called(Apply(Self, c, now), <<c.kind, MainOf(c)>>, c)
                   /\ lastChatRequest' = clear(lastChatRequest)
                   /\ chats' =
                          [j \in DOMAIN chats |->
                              [chats[j] EXCEPT
                                  !.pending = IF j = i THEN FALSE ELSE @,
                                  !.actions =
                                      IF j = LastCaptured
                                      THEN Append(@, ChatAction(text))
                                      ELSE @]]
              ELSE /\ SessionIdle
                   /\ chats' = [chats EXCEPT ![i].pending = FALSE]
                   /\ UNCHANGED lastChatRequest
    /\ UNCHANGED <<writer, feed, issued, cmd, pollInterval, intervals,
                   watcher, watchers, pendingChanges, timeouts, continuation,
                   observed, stopping, saved>>

\* The handler of the @buildlog participant, up to its first await
ParticipantRequest ==
    /\ continuation = None
    /\ Len(chats) < MaxChats
    /\ IF state = "recording"
       THEN LET c == ChatPromptCall("participant") IN
            /\ Called(Apply(Self, c, now), <<c.kind, MainOf(c)>>, c)
            /\ chats' = Append(chats, ChatRequest("participant", TRUE))
       ELSE /\ SessionIdle
            /\ chats' = Append(chats, ChatRequest("participant", FALSE))
    /\ UNCHANGED <<writer, feed, issued, cmd, pollInterval, intervals,
                   watcher, watchers, pendingChanges, timeouts, continuation,
                   observed, lastChatRequest, stopping, saved>>

\* The handler of the participant once the response has been streamed; no
\* model, or a model error, leaves as little as the empty text does
ParticipantResponse ==
    /\ continuation = None
    /\ \E i \in DOMAIN chats, text \in ChatResponses :
           /\ chats[i].via = "participant"
           /\ chats[i].pending
           /\ IF state = "recording" /\ text # ""
              THEN LET c == ChatActionCall(text) IN
                   /\ Called(Apply(Self, c, now), <<c.kind, MainOf(c)>>, c)
                   /\ chats' = [chats EXCEPT
                                   ![i].pending = FALSE,
                                   ![i].actions = Append(@, ChatAction(text))]
              ELSE /\ SessionIdle
                   /\ chats' = [chats EXCEPT ![i].pending = FALSE]
    /\ UNCHANGED <<writer, feed, issued, cmd, pollInterval, intervals,
                   watcher, watchers, pendingChanges, timeouts, continuation,
                   observed, lastChatRequest, stopping, saved>>

\* Half the staleness window passes
ChatWait ==
    /\ continuation = None
    /\ now < MaxChatWaits * (StaleAfter \div 2)
    /\ now' = now + StaleAfter \div 2
    /\ lastOp' = NoOp
    /\ UNCHANGED <<session, uuidCounter, emitted, returned, accepted,
                   recordingIds, lastArgs, adapters>>

NextChat ==
    \/ HostStart
    \/ HandlerContinues
    \/ HostStop
    \/ RequestSent
    \/ ResponseReceived
    \/ ParticipantRequest
    \/ ParticipantResponse
    \/ ChatWait

SpecChat == Init /\ [][NextChat]_vars

\* ------------------------------------------- the stop and start commands
\* what the confirmation of the stop command can be answered: the button
\* 'Stop & Save', or anything else (dismissed, 'Cancel'; 'Add Prompt First'
\* hands over to the add prompt command and returns as well)
ConfirmAnswers == {"Stop & Save", Undefined}
\* what the quick pick of the outcome can resolve to
StatusChoices == {"success", Undefined}
\* what the input box of the summary can resolve to
SummaryInputs == {"Completed successfully", Undefined}
\* what the input box of the title can resolve to
TitleInputs == {FeedTitle, Undefined}

\* an invocation of a command, as the variables of its closure and, as
\* history, the session it was invoked for, the invocations that were waiting
\* then, and how it ended
Invocation(command, pc, result) ==
    [command |-> command, pc |-> pc, result |-> result,
     stepCount |-> IF command = "stop" THEN getStepCount(Self) ELSE 0,
     promptCount |-> IF command = "stop" THEN getPromptCount(Self) ELSE 0,
     status |-> Undefined,
     of |-> sessionId,
     during |-> {k \in DOMAIN stopping : stopping[k].pc # "done"},
     acted |-> 0]

\* the counts the stop command reports: those it read before its dialogs
countsAtInvocation(inv, s) ==
    [stepCount |-> inv.stepCount, promptCount |-> inv.promptCount]

\* the outcome the stop command passes to session.stop()
CommandOutcome(status, summary, stepCount) ==
    Some([status |-> OrElse(status, "abandoned"),
          summary |-> OrElse(summary,
                             "Recorded " \o ToString(stepCount) \o " steps")])

\* The stop recording command is invoked: it reads the counts and opens its
\* confirmation, or warns that nothing is being recorded
StopInvoked ==
    /\ continuation = None
    /\ Len(stopping) < MaxInvocations
    /\ stopping' =
           Append(stopping,
                  IF isRecording(Self)
                  THEN Invocation("stop", "confirm", "running")
                  ELSE Invocation("stop", "done", "refused"))
    /\ SessionIdle
    /\ UNCHANGED <<writer, feed, issued, cmd, pollInterval, intervals,
                   watcher, watchers, pendingChanges, timeouts, continuation,
                   observed, lastChatRequest, chats, saved>>

\* The confirmation of a stop command is answered
StopConfirmed ==
    /\ continuation = None
    /\ \E i \in DOMAIN stopping, answer \in ConfirmAnswers :
           /\ stopping[i].command = "stop"
           /\ stopping[i].pc = "confirm"
           /\ stopping' =
                  IF answer = "Stop & Save"
                  THEN [stopping EXCEPT ![i].pc = "status"]
                  ELSE [stopping EXCEPT ![i].pc = "done",
                                        ![i].result = "cancelled"]
    /\ SessionIdle
    /\ UNCHANGED <<writer, feed, issued, cmd, pollInterval, intervals,
                   watcher, watchers, pendingChanges, timeouts, continuation,
                   observed, lastChatRequest, chats, saved>>

\* The quick pick of a stop command resolves
StopStatusPicked ==
    /\ continuation = None
    /\ \E i \in DOMAIN stopping, status \in StatusChoices :
           /\ stopping[i].command = "stop"
           /\ stopping[i].pc = "status"
           /\ stopping' = [stopping EXCEPT ![i].pc = "summary",
                                           ![i].status = status]
    /\ SessionIdle
    /\ UNCHANGED <<writer, feed, issued, cmd, pollInterval, intervals,
                   watcher, watchers, pendingChanges, timeouts, continuation,
                   observed, lastChatRequest, chats, saved>>

\* The summary input of a stop command resolves: session.stop(), whose state
\* change stops both watchers, then the artifact is written and the message
\* shown; a stop() that throws is reported as a failure
StopSummaryEntered ==
    /\ continuation = None
    /\ \E i \in DOMAIN stopping, summary \in SummaryInputs :
           /\ stopping[i].command = "stop"
           /\ stopping[i].pc = "summary"
           /\ LET counts == countsAtInvocation(stopping[i], Self)
                  outcome == CommandOutcome(stopping[i].status, summary,
                                            counts.stepCount)
                  r == stop(Self, outcome, now)
              IN  /\ Stopped(outcome)
                  /\ IF r.threw
                     THEN /\ stopping' = [stopping EXCEPT
                                             ![i].pc = "done",
                                             ![i].result = "failed"]
                          /\ UNCHANGED <<written, saved, pollInterval,
                                         intervals, watcher, watchers,
                                         pendingChanges, timeouts>>
                     ELSE /\ stopping' = [stopping EXCEPT
                                             ![i].pc = "done",
                                             ![i].result = "saved",
                                             ![i].acted = sessionId]
                          /\ LET w == agentFeedWatcherStop(
                                          [pollInterval |-> pollInterval,
                                           intervals |-> intervals]) IN
                             /\ pollInterval' = w.pollInterval
                             /\ intervals' = w.intervals
                          /\ InstallFileWatcher(fileWatcherStop(FileWatcher))
                          /\ written' =
                                 Some([of |-> r.value[1],
                                       content |-> JSONstringify(r.value[1])])
                          /\ saved' =
                                 Append(saved,
                                        [artifact |-> r.value[1], by |-> i,
                                         fallback |-> OrElse(summary, "") = "",
                                         stepCount |-> counts.stepCount,
                                         replicable |-> counts.promptCount > 0])
    /\ UNCHANGED <<readBack, feed, issued, cmd, continuation, observed,
                   lastChatRequest, chats>>

\* The start recording command is invoked: it opens its title input, or
\* warns that a recording is in progress
StartInvoked ==
    /\ continuation = None
    /\ Len(stopping) < MaxInvocations
    /\ stopping' =
           Append(stopping,
                  IF isRecording(Self)
                  THEN Invocation("start", "done", "refused")
                  ELSE Invocation("start", "title", "running"))
    /\ SessionIdle
    /\ UNCHANGED <<writer, feed, issued, cmd, pollInterval, intervals,
                   watcher, watchers, pendingChanges, timeouts, continuation,
                   observed, lastChatRequest, chats, saved>>

\* The title input of a start command resolves: session.start(title), whose
\* state change runs the extension's handler up to its await; a start() that
\* throws is reported as a failure
StartTitleEntered ==
    /\ continuation = None
    /\ \E i \in DOMAIN stopping, input \in TitleInputs :
           /\ stopping[i].command = "start"
           /\ stopping[i].pc = "title"
           /\ IF input = Undefined
              THEN /\ stopping' = [stopping EXCEPT ![i].pc = "done",
                                                   ![i].result = "cancelled"]
                   /\ SessionIdle
                   /\ UNCHANGED <<feed, issued, pollInterval, intervals,
                                  continuation>>
              ELSE IF isRecording(Self)
              THEN /\ stopping' = [stopping EXCEPT ![i].pc = "done",
                                                   ![i].result = "failed"]
                   /\ Started(input)
                   /\ UNCHANGED <<feed, issued, pollInterval, intervals,
                                  continuation>>
              ELSE /\ uuidCounter < MaxUuidWatchers
                   /\ stopping' = [stopping EXCEPT
                                      ![i].pc = "done",
                                      ![i].result = "started",
                                      ![i].acted = uuidCounter + 1]
                   /\ Started(input)
                   /\ feedFile' = writeFileSyncEmpty(feedFile)
                   /\ fileMtime' = Some(now)
                   /\ lastPosition' = 0
                   /\ lastMtime' = None
                   /\ issued' = <<>>
                   /\ ingested' = <<>>
                   /\ LET w == agentFeedWatcherStart(
                                   [pollInterval |-> pollInterval,
                                    intervals |-> intervals]) IN
                      /\ pollInterval' = w.pollInterval
                      /\ intervals' = w.intervals
                   /\ continuation' = Some("recording")
    /\ UNCHANGED <<writer, cmd, watcher, watchers, pendingChanges, timeouts,
                   observed, lastChatRequest, chats, saved>>

NextStopCommand ==
    \/ StartInvoked
    \/ StartTitleEntered
    \/ HandlerContinues
    \/ StopInvoked
    \/ StopConfirmed
    \/ StopStatusPicked
    \/ StopSummaryEntered
    \/ RequestSent

SpecStopCommand == Init /\ [][NextStopCommand]_vars

\* -------------------------------------------------------------- the claims
ActionSteps(log) == {st \in Range(log) : st.type = "action"}
PromptSteps(log) == {st \in Range(log) : st.type = "prompt"}
Paths(lists) == UNION {Range(l.items) : l \in lists}

\* the kind and the main argument of the call that made a step
CallOf(st) ==
    <<st.type,
      CASE st.type = "prompt" -> st.content
        [] st.type = "action" -> st.summary
        [] st.type = "terminal" -> st.command
        [] st.type = "note" -> st.content
        [] st.type = "checkpoint" -> st.name
        [] st.type = "error" -> st.message>>

\* C1: the artifact stop() returns lists the accepted steps in the order
\* their calls were accepted, and the step at index i has sequence i
\* (zero-based).
C1_AcceptanceOrderAndSequence ==
    artifact # None =>
        LET a == artifact[1] IN
        /\ Len(a.steps) = Len(acceptedAt)
        /\ \A i \in DOMAIN a.steps :
               /\ CallOf(a.steps[i]) = acceptedAt[i]
               /\ a.steps[i].sequence = i - 1

\* C2: while the state is 'recording', the length of the step log equals
\* the sequence counter.
C2_LengthEqualsCounter ==
    state = "recording" => Len(steps) = sequenceCounter

\* C3: a mutation call made while the state is not 'recording' contributes
\* no step: every step of the log and of the returned artifact got its id
\* from a call made while recording.
C3_IdleCallsContributeNothing ==
    /\ \A st \in Range(steps) : st.id \in recordingIds
    /\ artifact # None => \A st \in Range(artifact[1].steps) : st.id \in recordingIds

\* a mutation call was dropped after a session whose artifact has steps
C3_Witness ==
    /\ state = "idle"
    /\ lastOp = [op |-> "mutation", threw |-> FALSE]
    /\ artifact # None
    /\ artifact[1].steps # <<>>

\* C4: a mutation method called while the state is not 'recording' returns
\* normally, leaves the step log, the sequence counter, both file-touch
\* sets, the title, the start time and the state unchanged, and fires no
\* step-added notification.
C4_IdleMutationIsNoOp ==
    [][(state # "recording" /\ lastOp'.op = "mutation") =>
           /\ ~lastOp'.threw
           /\ UNCHANGED <<steps, sequenceCounter, filesCreated, filesModified,
                          title, startTime, state, stepFired>>]_vars

\* a mutation method was called on an idle session that had been given a
\* title, before any recording
C4_Witness ==
    /\ state = "idle"
    /\ lastOp = [op |-> "mutation", threw |-> FALSE]
    /\ title # ""
    /\ artifact = None

\* C5: in the returned artifact, metadata.replicable is true exactly when a
\* step of type 'prompt' is among its steps, and outcome.canReplicate equals
\* metadata.replicable.
C5_ReplicableIffPrompt ==
    artifact # None =>
        LET a == artifact[1] IN
        /\ a.metadata.replicable = (PromptSteps(a.steps) # {})
        /\ a.outcome.canReplicate = a.metadata.replicable

\* an artifact with steps, none of them a prompt
C5_Witness ==
    /\ artifact # None
    /\ Len(artifact[1].steps) = 2
    /\ PromptSteps(artifact[1].steps) = {}
    /\ ~artifact[1].metadata.replicable

\* C6: when stop() is called without an outcome, outcome.status is 'success'
\* if the artifact has a prompt step and 'abandoned' otherwise.
C6_DefaultStatus ==
    (artifact # None /\ stopArg = Some(None)) =>
        artifact[1].outcome.status =
            IF PromptSteps(artifact[1].steps) # {} THEN "success" ELSE "abandoned"

\* stop() without an outcome ended a session that has steps but no prompt
C6_Witness ==
    /\ artifact # None
    /\ stopArg = Some(None)
    /\ artifact[1].steps # <<>>
    /\ artifact[1].outcome.status = "abandoned"

\* C7 as stated: the artifact's outcome.status and outcome.summary are
\* exactly the values the caller passed to stop(), for every summary string.
C7_SuppliedOutcomeIsKept ==
    (artifact # None /\ stopArg # None /\ stopArg[1] # None) =>
        /\ artifact[1].outcome.status = stopArg[1][1].status
        /\ artifact[1].outcome.summary = stopArg[1][1].summary

\* C7 as amended: the supplied status is kept, and the supplied summary is
\* kept when it is not the empty string; an empty summary is replaced by
\* the generated 'Recorded N steps'.
C7_SuppliedNonEmptyOutcomeIsKept ==
    (artifact # None /\ stopArg # None /\ stopArg[1] # None) =>
        LET a == artifact[1]
            o == stopArg[1][1] IN
        /\ a.outcome.status = o.status
        /\ o.summary # "" => a.outcome.summary = o.summary
        /\ o.summary = "" =>
               a.outcome.summary = "Recorded " \o ToString(Len(a.steps)) \o " steps"

\* stop() was given 'failure' and a summary for a session that has a prompt
C7_Witness ==
    /\ artifact # None
    /\ stopArg = Some(Some([status |-> "failure",
                            summary |-> "Completed successfully"]))
    /\ PromptSteps(artifact[1].steps) # {}

\* C8: when no summary is supplied to stop(), outcome.summary is
\* 'Recorded N steps' with N the number of steps in the returned artifact.
C8_DefaultSummaryCountsSteps ==
    (artifact # None /\ stopArg = Some(None)) =>
        artifact[1].outcome.summary =
            "Recorded " \o ToString(Len(artifact[1].steps)) \o " steps"

\* stop() without an outcome ended a session of two steps
C8_Witness ==
    /\ artifact # None
    /\ stopArg = Some(None)
    /\ artifact[1].outcome.summary = "Recorded 2 steps"

\* C9: outcome.filesCreated and outcome.filesModified are the numbers of
\* distinct paths in the filesCreated and filesModified lists of the action
\* steps of the artifact.
C9_FileCountsMatchActionSteps ==
    artifact # None =>
        LET a == artifact[1] IN
        /\ a.outcome.filesCreated =
               Cardinality(Paths({st.filesCreated : st \in ActionSteps(a.steps)}))
        /\ a.outcome.filesModified =
               Cardinality(Paths({st.filesModified : st \in ActionSteps(a.steps)}))

\* C10: start() called while the state is 'recording' throws and changes
\* nothing: session id, title, start time, step log, sequence counter and
\* file-touch sets keep their values and no state change is fired.
C10_StartWhileRecordingFails ==
    [][(state = "recording" /\ lastOp'.op = "start") =>
           /\ lastOp'.threw
           /\ UNCHANGED <<state, sessionId, title, startTime, steps,
                          sequenceCounter, filesCreated, filesModified,
                          stateFired>>]_vars

\* start() was refused on a recording session that has steps
C10_Witness ==
    /\ state = "recording"
    /\ lastOp = [op |-> "start", threw |-> TRUE]
    /\ steps # <<>>
    /\ filesCreated # {}

\* C11: stop() called while the state is not 'recording' throws, fires no
\* notification, leaves the state 'idle' and every field as it was, and
\* leaves the artifact of an earlier stop() as it was; an artifact is
\* assembled only in a step that takes the state from 'recording' to 'idle',
\* so there is one per start().
C11_StopWhileIdleFails ==
    [][/\ (state # "recording" /\ lastOp'.op = "stop") =>
              /\ lastOp'.threw
              /\ state' = "idle"
              /\ UNCHANGED <<session, emitted, returned>>
       /\ artifact' # artifact =>
              (state = "recording" /\ state' = "idle")]_vars

\* a second stop() was refused after a stop() that returned an artifact
\* with steps
C11_Witness ==
    /\ state = "idle"
    /\ lastOp = [op |-> "stop", threw |-> TRUE]
    /\ artifact # None
    /\ artifact[1].steps # <<>>

\* C12: a successful start() leaves the state 'recording' with an empty step
\* log, sequence counter 0 and both file-touch sets empty; the file-touch
\* sets change only while recording, and every step of a returned artifact
\* was made after its session was started (its id was drawn after the
\* session's id).
C12_StartBeginsEmpty ==
    [][/\ (state # "recording" /\ state' = "recording") =>
              /\ steps' = <<>>
              /\ sequenceCounter' = 0
              /\ filesCreated' = {}
              /\ filesModified' = {}
       /\ (state # "recording" /\ state' # "recording") =>
              UNCHANGED <<steps, filesCreated, filesModified>>
       /\ artifact' # None =>
              \A st \in Range(artifact'[1].steps) :
                  st.id > artifact'[1].metadata.id]_vars

\* a session was started after one that recorded steps and created files
C12_Witness ==
    /\ state = "recording"
    /\ steps = <<>>
    /\ sequenceCounter = 0
    /\ artifact # None
    /\ artifact[1].steps # <<>>
    /\ artifact[1].outcome.filesCreated > 0
    /\ artifact[1].metadata.id < sessionId

\* C13: when a successful stop() returns, getState() is 'idle',
\* getStepCount() and getPromptCount() are 0, getTitle() is the empty string,
\* getDuration() is 0 and getStats() reports 0 steps and 0 created and
\* modified files.
C13_StopResetsToIdleDefaults ==
    [][(state = "recording" /\ state' # "recording") =>
           /\ getState(Self') = "idle"
           /\ getStepCount(Self') = 0
           /\ getPromptCount(Self') = 0
           /\ getTitle(Self') = ""
           /\ getDuration(Self', now') = 0
           /\ getStats(Self') =
                  [totalSteps |-> 0, prompts |-> 0, actions |-> 0,
                   notes |-> 0, others |-> 0, filesCreated |-> 0,
                   filesModified |-> 0]]_vars

\* stop() returned from a session of two steps, one a prompt, that touched
\* files, and the session is at its defaults
C13_Witness ==
    /\ state = "idle"
    /\ lastOp = NoOp
    /\ artifact # None
    /\ Len(artifact[1].steps) = 2
    /\ PromptSteps(artifact[1].steps) # {}
    /\ artifact[1].outcome.filesModified > 0
    /\ title = ""
    /\ steps = <<>>
    /\ startTime = None

\* C14: an artifact stop() returned is not changed by any later operation:
\* the session never keeps the array object the artifact's steps field
\* refers to, and the artifact held changes only by a later stop()
\* returning the artifact of another session.
C14_ArtifactIsNeverChanged ==
    [][/\ artifact' # None => stepsRef' # artifactRef'
       /\ artifact # None =>
              \/ UNCHANGED <<artifact, artifactRef>>
              \/ /\ state = "recording"
                 /\ state' = "idle"
                 /\ artifact' # None
                 /\ artifact'[1].metadata.id # artifact[1].metadata.id]_vars

\* a later session accepted a step while an artifact was held
C14_Witness ==
    /\ artifact # None
    /\ state = "recording"
    /\ steps # <<>>
    /\ artifact[1].metadata.id # sessionId

\* the notified states alternate, starting with 'recording'
Alternates(fired) ==
    \A i \in DOMAIN fired :
        fired[i] = IF i % 2 = 1 THEN "recording" ELSE "idle"

\* C15: a successful start() fires exactly one state-change notification,
\* 'recording'; a successful stop() exactly one, 'idle'; a failed start() or
\* stop() and every other call fire none; the notified states alternate
\* recording, idle, recording, ...
C15_OneNotificationPerTransition ==
    [][/\ (state # "recording" /\ state' = "recording") =>
              stateFired' = Append(stateFired, "recording")
       /\ (state = "recording" /\ state' # "recording") =>
              stateFired' = Append(stateFired, "idle")
       /\ state' = state => stateFired' = stateFired
       /\ Alternates(stateFired')]_vars

\* two sessions were started and stopped, and calls were refused in between
C15_Witness ==
    /\ stateFired = <<"recording", "idle", "recording", "idle">>
    /\ lastOp = [op |-> "stop", threw |-> TRUE]

\* C16: inside the handler of a state-change notification the session shows
\* the values after the transition: on 'recording' an empty log, the new
\* title and the start time; on 'idle' step count 0, prompt count 0, the
\* empty title and duration 0.
C16_HandlerSeesPostTransitionValues ==
    stateSeen # None =>
        LET o == stateSeen[1] IN
        /\ o.state = "recording" =>
               /\ o.stepCount = 0
               /\ o.promptCount = 0
               /\ o.title # ""
               /\ o.startTime # None
        /\ o.state = "idle" =>
               /\ o.stepCount = 0
               /\ o.promptCount = 0
               /\ o.title = ""
               /\ o.startTime = None
               /\ o.duration = 0

\* C17: the step-added notification fires once for each accepted step, in
\* append order, its handler reads a step count that includes the step, and
\* a call that is rejected or throws fires none.
C17_OneStepNotificationPerStep ==
    [][/\ state' = "recording" =>
              /\ stepFired' = steps'
              /\ stepSeen' = [i \in 1..Len(steps') |-> i]
       /\ lastOp'.op = "mutation" => UNCHANGED <<stepFired, stepSeen>>]_vars

\* two steps were accepted and notified
C17_Witness ==
    /\ state = "recording"
    /\ Len(steps) = 2
    /\ stepFired = steps
    /\ stepSeen = <<1, 2>>

\* C18: the state is 'idle' or 'recording', never 'paused'.
C18_PausedIsUnreachable ==
    state \in {"idle", "recording"}

\* dispose() was called on a session that had stopped once and records again
C18_Witness ==
    /\ lastOp = [op |-> "dispose", threw |-> FALSE]
    /\ state = "recording"
    /\ stateFired = <<"recording", "idle", "recording">>

\* C19: every call that leaves the state as it is either leaves the step
\* log, the sequence counter and both file-touch sets unchanged, or appends
\* one step and advances the counter by one.
C19_MutationIsAllOrNothing ==
    [][state' = state =>
           \/ UNCHANGED <<steps, sequenceCounter, filesCreated, filesModified>>
           \/ /\ Len(steps') = Len(steps) + 1
              /\ sequenceCounter' = sequenceCounter + 1]_vars

\* the artifact stop() assembles from the session, but for its duration
WellFormed(a) ==
    /\ a.version = "2.0.0"
    /\ a.format = "slim"
    /\ a.metadata.id = sessionId
    /\ a.metadata.title = title
    /\ a.metadata.createdAt = toISOString(startTime[1])
    /\ a.steps = steps
    /\ a.outcome.status \in OutcomeStatus

C21_TimestampsAreMonotone ==
    artifact # None =>
        LET a == artifact[1] IN
        \A i \in DOMAIN a.steps :
            /\ a.steps[i].timestamp >= 0
            /\ a.steps[i].timestamp <= a.metadata.durationSeconds
            /\ i > 1 => a.steps[i - 1].timestamp <= a.steps[i].timestamp

\* a step was accepted at once and the next half a second later
C21_Witness ==
    /\ artifact # None
    /\ Len(artifact[1].steps) = 2
    /\ artifact[1].steps[1].timestamp = 0
    /\ artifact[1].steps[2].timestamp = 1
    /\ artifact[1].metadata.createdAt = toISOString(0)

\* the step the call with arguments a is to record, but for id, timestamp
\* and sequence
Records(st, a) ==
    CASE st.type = "prompt" ->
             /\ st.content = a.content
             /\ st.context = a.options.context
             /\ st.intent = a.options.intent
      [] st.type = "action" ->
             /\ st.summary = a.summary
             /\ st.filesCreated = a.options.filesCreated
             /\ st.filesModified = a.options.filesModified
             /\ st.filesDeleted = a.options.filesDeleted
             /\ st.approach = a.options.approach
      [] st.type = "terminal" ->
             /\ st.command = a.command
             /\ st.outcome = a.outcome
             /\ st.summary = a.options.summary
             /\ st.exitCode = a.options.exitCode
      [] st.type = "note" ->
             /\ st.content = a.content
             /\ st.category = a.category
      [] st.type = "checkpoint" ->
             /\ st.name = a.name
             /\ st.summary = a.summary
      [] st.type = "error" ->
             /\ st.message = a.message
             /\ st.resolved = (a.resolved = Some(TRUE))
             /\ st.resolution = a.resolution

\* C22: an accepted mutation call appends exactly one step, of the kind of
\* the method called and with the arguments passed as its fields; addError
\* without a resolved argument records resolved = false.
C22_StepRecordsTheCall ==
    [][Len(accepted') = Len(accepted) + 1 =>
           /\ Len(steps') = Len(steps) + 1
           /\ SubSeq(steps', 1, Len(steps)) = steps
           /\ steps'[Len(steps')].type = accepted'[Len(accepted')][1]
           /\ Records(steps'[Len(steps')], lastArgs'[1])]_vars

\* addError was accepted without a resolved argument
C22_Witness ==
    /\ state = "recording"
    /\ steps # <<>>
    /\ steps[Len(steps)].type = "error"
    /\ ~steps[Len(steps)].resolved
    /\ lastArgs # None
    /\ lastArgs[1].resolved = None

TypesOf(log) == [i \in DOMAIN log |-> log[i].type]

SameStep(orig, got) ==
    /\ DOMAIN got \subseteq DOMAIN orig
    /\ \A k \in DOMAIN orig :
           IF IsUndefined(k, orig[k]) THEN k \notin DOMAIN got
           ELSE k \in DOMAIN got /\ got[k] = orig[k]

\* C24: the artifact read back from the file the writer wrote equals the
\* artifact written: version, format, metadata and outcome are the same, the
\* steps are the same in number, order, kind, sequence and fields, and an
\* optional field that was not supplied is absent, not an empty string or
\* an empty list.
C24_WriteReadRoundTrip ==
    readBack # None =>
        LET orig == readBack[1].of
            got == readBack[1].value IN
        /\ got.version = orig.version
        /\ got.format = orig.format
        /\ got.metadata = orig.metadata
        /\ got.outcome = orig.outcome
        /\ Len(got.steps) = Len(orig.steps)
        /\ \A i \in DOMAIN orig.steps : SameStep(orig.steps[i], got.steps[i])

\* an artifact with a prompt step that has neither context nor intent was
\* written and read back
C24_Witness ==
    /\ readBack # None
    /\ \E i \in DOMAIN readBack[1].of.steps :
           LET st == readBack[1].of.steps[i] IN
           /\ st.type = "prompt"
           /\ st.intent = Undefined
           /\ st.context = UndefinedList
           /\ "intent" \notin DOMAIN readBack[1].value.steps[i]

\* the types of entry the feed has a session call for
FeedTypes == {"prompt", "action", "note", "error", "checkpoint"}
\* the string member k of a line's JSON object, undefined if it has none
Member(text, k) ==
    LET has == {i \in DOMAIN text.members : text.members[i][1] = k} IN
    IF has = {} THEN Undefined ELSE text.members[CHOOSE i \in has : TRUE][2]
\* the type of the entry a line holds, undefined if it holds none
TypeOf(text) == IF text.json = "object" THEN Member(text, "type") ELSE Undefined
\* the lines that lie whole in a batch of pieces
WholeLines(batch) ==
    {batch[i].line : i \in {i \in DOMAIN batch :
        \/ batch[i].part = "whole"
        \/ batch[i].part = "tail" /\ i > 1}}
\* the text of the line l of a batch
TextOf(batch, l) == batch[CHOOSE i \in DOMAIN batch : batch[i].line = l].text
\* the batches read so far, end to end
RECURSIVE Flatten(_)
Flatten(batches) ==
    IF batches = <<>> THEN <<>> ELSE Head(batches) \o Flatten(Tail(batches))

\* C25: in a batch read by the feed adapter, a line that does not parse and
\* a line whose session call throws are skipped on their own: the calls
\* made for the batch are those of its well-formed lines, every one of
\* them, in file order, and each call that did not throw appended its step.
C25_BatchSkipsOnlyBadLines ==
    [][ingested' # ingested =>
        LET batch == ingested'[Len(ingested')]
            new == SubSeq(issued', Len(issued) + 1, Len(issued'))
        IN  /\ {new[i].line : i \in DOMAIN new} =
                   {l \in WholeLines(batch) : TypeOf(TextOf(batch, l)) \in FeedTypes}
            /\ \A i, j \in DOMAIN new : i < j => new[i].line < new[j].line
            /\ Len(steps') = Len(steps) +
                   Cardinality({i \in DOMAIN new : ~new[i].threw})
            /\ \A i \in DOMAIN new :
                   ~new[i].threw =>
                       steps'[new[i].at].type = TypeOf(TextOf(batch, new[i].line))
    ]_vars

\* one batch held a prompt, a prompt without content, whose call threw, and
\* a prompt again, and the first and the third became steps
C25_Witness ==
    /\ ingested # <<>>
    /\ Len(ingested[1]) = 3
    /\ Len(issued) = 3
    /\ ~issued[1].threw /\ issued[2].threw /\ ~issued[3].threw
    /\ Len(steps) = 2

\* C26: no line of the feed file is turned into a call twice, whether
\* the batches were read by poll ticks or by file-change callbacks, and the
\* cursor is never past the end of the file nor past content that was
\* not read.
C26_CursorReadsEachLineOnce ==
    /\ \A i, j \in DOMAIN issued : i # j => issued[i].line # issued[j].line
    /\ lastPosition <= Len(feedFile)
    /\ Flatten(ingested) = SubSeq(feedFile, 1, lastPosition)

\* a poll tick read a batch and a file-change callback read the next one
C26_Witness ==
    /\ lastOp.op = "watch"
    /\ lastMtime # None
    /\ Len(ingested) = 2
    /\ Len(issued) = 2
    /\ lastPosition = Len(feedFile)

\* C27: while recording, after a poll tick every well-formed entry whose
\* append is complete has been turned into its call (the code breaks this).
C27_PollIngestsEveryAppendedEntry ==
    (lastOp.op = "poll" /\ state = "recording") =>
        \A l \in WholeLines(feedFile) :
            TypeOf(TextOf(feedFile, l)) \in FeedTypes =>
                \E i \in DOMAIN issued : issued[i].line = l

\* C28: the feed adapter makes exactly one call, of the corresponding kind,
\* for each entry it reads whose type is prompt, action, note, error or
\* checkpoint, and no call for an entry of another type or without a type.
C28_OneCallPerKnownType ==
    [][ingested' # ingested =>
        LET batch == ingested'[Len(ingested')]
            new == SubSeq(issued', Len(issued) + 1, Len(issued'))
        IN  \A l \in WholeLines(batch) :
                LET calls == {i \in DOMAIN new : new[i].line = l}
                    type == TypeOf(TextOf(batch, l))
                IN  IF type \in FeedTypes
                    THEN /\ Cardinality(calls) = 1
                         /\ \A i \in calls : new[i].call.kind = type
                    ELSE calls = {}
    ]_vars

\* a terminal entry and a checkpoint entry were read, and only the
\* checkpoint became a call
C28_Witness ==
    /\ Len(feedFile) = 2
    /\ lastPosition = 2
    /\ TypeOf(feedFile[1].text) = "terminal"
    /\ TypeOf(feedFile[2].text) = "checkpoint"
    /\ Len(issued) = 1
    /\ issued[1].call.kind = "checkpoint"
    /\ issued[1].line = 2

\* C29: the call and the step of a prompt entry have the entry's raw as
\* content and the entry's content as intent if raw is present and not
\* empty, and the entry's content and intent otherwise.
C29_PromptEntryMapping ==
    \A i \in DOMAIN issued :
        issued[i].call.kind = "prompt" =>
            LET text == TextOf(feedFile, issued[i].line)
                raw == Member(text, "raw")
                content == IF raw \notin {Undefined, ""} THEN raw
                           ELSE Member(text, "content")
                intent == IF raw \notin {Undefined, ""}
                          THEN Member(text, "content")
                          ELSE Member(text, "intent")
            IN  /\ issued[i].call.content = content
                /\ issued[i].call.options.intent = intent
                /\ (state = "recording" /\ ~issued[i].threw) =>
                       /\ steps[issued[i].at].content = content
                       /\ steps[issued[i].at].intent = intent

\* a prompt entry with raw and one without were read and became steps
C29_Witness ==
    /\ state = "recording"
    /\ Len(issued) = 2
    /\ Member(TextOf(feedFile, issued[1].line), "raw") = "Please build a CTA"
    /\ steps[issued[1].at].content = "Please build a CTA"
    /\ steps[issued[1].at].intent = "Build a CTA component"
    /\ Member(TextOf(feedFile, issued[2].line), "raw") = Undefined
    /\ steps[issued[2].at].content = "Build a CTA component"
    /\ steps[issued[2].at].intent = "cta"

\* C30: an invocation of add prompt, add action or add note that has
\* returned made one session call if the user entered content that is not
\* blank and none otherwise; no invocation makes more than one call, and no
\* call is made with empty content.
C30_CommandMakesOneCall ==
    /\ Len(issued) = cmd.calls
    /\ cmd.calls <= 1
    /\ \A i \in DOMAIN issued :
           /\ issued[i].kind = cmd.kind
           /\ MainOf(issued[i]) \notin {Undefined, "", " "}
    /\ cmd.pc = "done" =>
           cmd.calls = IF cmd.typed \notin {Undefined, "", " "} THEN 1 ELSE 0

\* add note returned after the user entered a note and picked its category
C30_Witness ==
    /\ cmd.kind = "note"
    /\ cmd.pc = "done"
    /\ cmd.typed = " Fix the bug "
    /\ cmd.calls = 1
    /\ state = "recording"
    /\ steps # <<>>
    /\ steps[Len(steps)].type = "note"
    /\ steps[Len(steps)].content = "Fix the bug"
    /\ steps[Len(steps)].category = "tip"

\* C32: in the artifact stop() returned, every well-formed entry whose
\* append to the feed file was complete when stop() was called is a step
\* (the code breaks this).
C32_StopIngestsAppendedEntries ==
    (state = "idle" /\ artifact # None) =>
        \A l \in WholeLines(feedFile) :
            LET text == TextOf(feedFile, l) IN
            (TypeOf(text) \in FeedTypes /\ Member(text, "content") # Undefined) =>
                \E i \in DOMAIN issued :
                    /\ issued[i].line = l
                    /\ ~issued[i].threw
                    /\ issued[i].at \in DOMAIN artifact[1].steps

\* C31: every feed entry that became a step of the session, or of the
\* artifact stop() returned, was appended while that session was recording:
\* none appended before start() or after stop(), and none appended during
\* an earlier session.
C31_EntryLandsInItsSession ==
    /\ \A i \in DOMAIN steps : steps[i].context = Arr(<<sessionId>>)
    /\ artifact # None =>
           \A i \in DOMAIN artifact[1].steps :
               artifact[1].steps[i].context = Arr(<<artifact[1].metadata.id>>)

\* a second recording holds a step of its own while the artifact of the
\* first holds one of its own
C31_Witness ==
    /\ state = "recording"
    /\ artifact # None
    /\ artifact[1].steps # <<>>
    /\ steps # <<>>
    /\ artifact[1].metadata.id # sessionId

\* the timeouts among ts that are pending for the path p
PendingFor(ts, p) == {t \in ts : t.path = p}
\* the summary of the step recorded for a change of p
ChangeSummary(changeType, p) ==
    (IF changeType = "created" THEN "Created " ELSE "Modified ") \o p
\* a step has just been recorded for the last change event of p, in time
\* and with that event's change type
RecordedInTime(p) ==
    /\ observed'[p].recorded = 1
    /\ now >= observed[p].at + DebounceMs
    /\ Len(steps') = Len(steps) + 1
    /\ steps'[Len(steps')].type = "action"
    /\ steps'[Len(steps')].summary = ChangeSummary(observed[p].changeType, p)

\* C33, as stated: for every path and every burst of change events on it,
\* one action step is recorded, after the last event and with its change
\* type; until then one timer is pending for the path and never more
\* (ignored paths and a stop within the delay break this).
C33_EveryBurstRecordsOneStep ==
    [][/\ \A p \in WatchedPaths : Cardinality(PendingFor(timeouts', p)) <= 1
       /\ \A p \in DOMAIN observed' :
              \/ observed'[p].recorded = 1 /\ PendingFor(timeouts', p) = {}
              \/ /\ observed'[p].recorded = 0
                 /\ \E t \in PendingFor(timeouts', p) :
                        /\ t.changeType = observed'[p].changeType
                        /\ t.due = observed'[p].at + DebounceMs
       /\ \A p \in DOMAIN observed :
              observed'[p].recorded > observed[p].recorded => RecordedInTime(p)
    ]_vars

\* C33, amended: the same for every path the watcher does not ignore, as
\* long as the session that was recording at the last event of the burst is
\* still recording.
C33_BurstOnWatchedPathRecordsOneStep ==
    [][/\ \A p \in WatchedPaths : Cardinality(PendingFor(timeouts', p)) <= 1
       /\ \A p \in DOMAIN observed' :
              (/\ ~shouldIgnoreFile(p)
               /\ state' = "recording"
               /\ sessionId' = observed'[p].of) =>
                  \/ observed'[p].recorded = 1 /\ PendingFor(timeouts', p) = {}
                  \/ /\ observed'[p].recorded = 0
                     /\ \E t \in PendingFor(timeouts', p) :
                            /\ t.changeType = observed'[p].changeType
                            /\ t.due = observed'[p].at + DebounceMs
       /\ \A p \in DOMAIN observed :
              observed'[p].recorded > observed[p].recorded => RecordedInTime(p)
    ]_vars

\* the last event of a burst on src/app.ts, a modification, was recorded
\* while a timer is pending for src/Counter.tsx
C33_Witness ==
    /\ "src/app.ts" \in DOMAIN observed
    /\ observed["src/app.ts"].burst
    /\ observed["src/app.ts"].recorded = 1
    /\ observed["src/app.ts"].changeType = "modified"
    /\ steps # <<>>
    /\ steps[Len(steps)].summary = "Modified src/app.ts"
    /\ PendingFor(timeouts, "src/Counter.tsx") # {}

\* C34: no timeout is pending while the session is idle, a pending timeout
\* belongs to a change of the session that is recording, and a step
\* recorded for a change is recorded into the session that observed it.
C34_ChangeStaysInItsSession ==
    [][/\ state' = "idle" => timeouts' = {}
       /\ \A t \in timeouts' : t.of = sessionId'
       /\ \A p \in DOMAIN observed :
              observed'[p].recorded > observed[p].recorded =>
                  observed[p].of = sessionId
    ]_vars

\* a change of the first recording whose timeout had not fired at stop() has
\* no step, though a second recording has gone on past the delay
C34_Witness ==
    /\ state = "recording"
    /\ artifact # None
    /\ \E p \in DOMAIN observed :
           /\ observed[p].of = artifact[1].metadata.id
           /\ ~shouldIgnoreFile(p)
           /\ observed[p].recorded = 0
           /\ now >= observed[p].at + DebounceMs
           /\ PendingFor(timeouts, p) = {}
           /\ artifact[1].steps = <<>>
           /\ steps = <<>>

\* C35: when no state change handler is waiting to go on, one poll timer
\* and one file system watcher exist if the session is recording and none
\* otherwise; there is never more than one of either.
C35_WatchersFollowTheState ==
    /\ intervals <= 1
    /\ watchers <= 1
    /\ continuation = None =>
           IF state = "recording"
           THEN /\ pollInterval # None /\ intervals = 1
                /\ watcher # None /\ watchers = 1
           ELSE /\ pollInterval = None /\ intervals = 0
                /\ watcher = None /\ watchers = 0

\* a second recording is in progress with its timer and its watcher
C35_Witness ==
    /\ state = "recording"
    /\ artifact # None
    /\ continuation = None
    /\ intervals = 1
    /\ watchers = 1

\* the requests the interceptor's response listener can act upon
Intercepted == {j \in DOMAIN chats : chats[j].via = "interceptor"}

\* this step is a response event of the interceptor
Responds ==
    \E i \in Intercepted : chats[i].pending /\ ~chats'[i].pending

\* this step recorded an action step for the intercepted request j
Answers(j) == Len(chats'[j].actions) > Len(chats[j].actions)

\* what holds of the interceptor's response listener whatever the window
InterceptorRecordsOncePerRequest ==
    /\ \A j \in Intercepted :
           /\ Len(chats'[j].actions) <= 1
           /\ Answers(j) =>
                  /\ chats[j].captured
                  /\ chats[j].actions = <<>>
                  /\ chats'[j].actions[1].text # ""
                  /\ Len(steps') = Len(steps) + 1
                  /\ steps'[Len(steps')].type = "action"
                  /\ steps'[Len(steps')].id = chats'[j].actions[1].id
    /\ Responds /\ lastChatRequest = None => steps' = steps
    /\ Responds /\ (\A j \in Intercepted : ~Answers(j)) => steps' = steps

\* C36: the interceptor records an action step for a response only if a
\* request was captured less than 30 seconds earlier and no action has yet
\* been recorded for it; a captured request yields at most one action step,
\* a response with empty text or with no pending request none.
C36_ResponseWithinThirtySeconds ==
    [][/\ InterceptorRecordsOncePerRequest
       /\ \A j \in Intercepted :
              Answers(j) => now - chats[j].at < StaleAfter
    ]_vars

\* C36, as the code has it: the request was captured at most 30 seconds
\* earlier, the rest as above.
C36_ResponseWithinWindow ==
    [][/\ InterceptorRecordsOncePerRequest
       /\ \A j \in Intercepted :
              Answers(j) => now - chats[j].at <= StaleAfter
    ]_vars

\* an action step was recorded for a response that came exactly 30 seconds
\* after its request, and a later response found no pending request
C36_Witness ==
    /\ lastChatRequest = None
    /\ \E j \in Intercepted :
           /\ Len(chats[j].actions) = 1
           /\ chats[j].actions[1].at - chats[j].at = StaleAfter
           /\ steps # <<>>
           /\ steps[Len(steps)].id = chats[j].actions[1].id
    /\ \E i \in Intercepted : ~chats[i].pending /\ chats[i].actions = <<>>

\* C37: an action step recorded from a chat response comes after the prompt
\* step of the request it answers, in the recording of the same session.
C37_ActionFollowsItsPrompt ==
    \A j \in DOMAIN chats :
        \A a \in Range(chats[j].actions) :
            /\ chats[j].captured
            /\ chats[j].of = a.of
            /\ chats[j].promptId < a.id

\* C38: of two invocations of the stop command, or of the start command, of
\* which one was made while the other waited on its dialogs and which both
\* went through them, one stops (starts) the session and the other ends
\* with a reported failure.
C38_OneInvocationActs ==
    \A j \in DOMAIN stopping :
        \A i \in stopping[j].during :
            /\ stopping[i].command = stopping[j].command
            /\ stopping[i].result \in {"saved", "started", "failed"}
            /\ stopping[j].result \in {"saved", "started", "failed"}
            => \/ stopping[i].result = "failed"
               \/ stopping[j].result = "failed"

\* C39: the fallback summary of a saved artifact counts the steps the
\* artifact has, and the message of the stop command says 'Replicable'
\* exactly if the artifact's metadata does.
C39_ReportAgreesWithArtifact ==
    \A e \in Range(saved) :
        /\ e.fallback =>
               e.artifact.outcome.summary =
                   "Recorded " \o ToString(Len(e.artifact.steps)) \o " steps"
        /\ e.replicable = e.artifact.metadata.replicable

====
